---------------------------- MODULE Spec2Model ----------------------------
(***************************************************************************)
(* DocuSearch: the LRU result cache (backend/service/lru_cache.py), the    *)
(* search service (backend/service/search_service.py), the tokenizer       *)
(* (backend/index/preprocess.py), the indexer (backend/index/indexer.py),  *)
(* the query engine (backend/index/search.py), the index storage           *)
(* (backend/index/storage.py) and the HTTP handlers (backend/main.py).     *)
(*                                                                         *)
(* Conventions.                                                            *)
(*  - A Python str is a sequence of one-character strings: "ab" is         *)
(*    <<"a","b">>, "" is <<>>.                                             *)
(*  - An Optional value is a sequence of length 0 or 1: None is <<>>,      *)
(*    a value v is <<v>>.                                                  *)
(*  - A float is a fixed-point integer, thousandths (Scale); math.log is   *)
(*    the table LnTable, math.sqrt the integer square root.                *)
(*  - Objects of class _Node live in an arena `nodes` addressed by         *)
(*    integer ids; a None pointer is NoNode.                               *)
(***************************************************************************)
EXTENDS Integers, Sequences, FiniteSets, TLC

VARIABLES
    \* --- LRUCache driven directly (SpecLRU)
    cache,        \* Optional[LRUCache]: None until a construction succeeds
    lruLast,    \* the last call on the cache: what was called and what it returned
    touched,    \* history: the distinct keys ever put, most recently touched first
    latest,     \* history: key -> value of the latest put(key, value)
    nGets,      \* history: number of get calls made
    nPuts,      \* history: number of put calls made
    watch,      \* history: the key of the last get that hit and the new keys put right after
                \* it (forgotten at the next put that overwrites a held key)
    \* --- build_index and search driven directly (SpecEngine)
    docsDir,    \* the documents directory: file name -> file
    builtIndex, \* Optional[index]: None until build_index(docsDir) has returned
    lastQuery,  \* Optional[str]: the query of the last search call
    lastResult, \* the list the last search call returned
    \* --- SearchService (SpecService)
    svc,        \* Optional[SearchService]: None until constructed
    svcLog,     \* history: one record per SearchService.search call, in call order
    \* --- save_index and load_index (SpecPersist)
    loaded,       \* Optional[index]: None until load_index(save_index(index)) has returned
    loadedResult, \* Optional[list]: what search(lastQuery, loaded index) returned
    \* --- concurrent callers of search on one index (SpecReaders)
    callers,    \* caller -> the locals of its call of search and where it stands in it
    returned,   \* history: the (query, result) pairs the calls of search have returned
    \* --- GET /api/search handlers on the event loop (SpecApi)
    reqs,       \* request -> the locals of its handler and where it stands in SERVICE.search
    nStarted,   \* history: number of calls of SERVICE.search started
    \* --- POST /upload and GET /search handlers on the event loop (SpecUpload)
    UPLOADED_DOCUMENT,       \* Optional[str]: the module global of main.py
    UPLOADED_DOCUMENT_CACHE, \* Dict[str, List[MatchItem]]: the module global of main.py
    uploads,    \* upload request -> the locals of its handler and where it stands in it
    upLast,     \* the last response of /upload or /search
    asked,      \* history: the cache keys of the /search requests answered since the
                \* last successful /upload
    replaced,   \* history: the document the last successful /upload replaced and the
                \* keys its cache held then
    \* --- preprocess applied to one text (SpecTokenizer)
    tokText,    \* the text handed to preprocess
    tokOut      \* Optional[list]: None until preprocess(tokText) has returned

lruVars == <<cache, lruLast, touched, latest, nGets, nPuts, watch>>
engVars == <<docsDir, builtIndex, lastQuery, lastResult>>
svcVars == <<svc, svcLog>>
persistVars == <<loaded, loadedResult>>
rdVars == <<callers, returned>>
apiVars == <<reqs, nStarted>>
upVars == <<UPLOADED_DOCUMENT, UPLOADED_DOCUMENT_CACHE, uploads, upLast, asked, replaced>>
tokVars == <<tokText, tokOut>>
frontVars == <<apiVars, upVars, tokVars>>
vars == <<lruVars, engVars, svcVars, persistVars, rdVars, frontVars>>

\* ------------------------------------------------------------------ bounds
MaxCapacity == 2
MaxGets == 2
MaxPuts == 3
MaxFiles == 2
MaxWords == 2
MaxCalls == 3
MaxSearches == 4
MaxPieces == 3
MaxRequests == 3

\* ----------------------------------------------------------------- helpers
None == <<>>
Some(v) == <<v>>

Range(f) == {f[x] : x \in DOMAIN f}

Min(a, b) == IF a <= b THEN a ELSE b

SeqToSet(s) == {s[i] : i \in 1..Len(s)}

\* ------------------------------------------------------- LRUCache (arena)
HEAD == 0
TAIL == 1
NoNode == -1

\* _Node.__init__: key, value, prev = next = None
NewNode(key, value) == [key |-> key, value |-> value, prev |-> NoNode, next |-> NoNode]

\* LRUCache.__init__ for capacity > 0
NewCache(capacity) ==
    [capacity |-> capacity,
     map      |-> <<>>,
     nodes    |-> (HEAD :> [NewNode(<<>>, None) EXCEPT !.next = TAIL])
                  @@ (TAIL :> [NewNode(<<>>, None) EXCEPT !.prev = HEAD]),
     hits     |-> 0,
     misses   |-> 0]

\* id of a freshly allocated _Node: the least id not in use
FreshId(c) == CHOOSE i \in 2..(Cardinality(DOMAIN c.nodes) + 2) :
                 /\ i \notin DOMAIN c.nodes
                 /\ \A j \in 2..(i - 1) : j \in DOMAIN c.nodes

\* mutant of _remove: the successor's prev pointer is not relinked
_remove_forward_only(c, n) ==
    LET prev == c.nodes[n].prev
        nxt  == c.nodes[n].next
        n1 == IF prev # NoNode THEN [c.nodes EXCEPT ![prev].next = nxt] ELSE c.nodes
    IN [c EXCEPT !.nodes = [n1 EXCEPT ![n].prev = NoNode, ![n].next = NoNode]]

\* LRUCache._remove
_remove(c, n) ==
    LET prev == c.nodes[n].prev
        nxt  == c.nodes[n].next
        n1 == IF prev # NoNode THEN [c.nodes EXCEPT ![prev].next = nxt] ELSE c.nodes
        n2 == IF nxt # NoNode THEN [n1 EXCEPT ![nxt].prev = prev] ELSE n1
    IN [c EXCEPT !.nodes = [n2 EXCEPT ![n].prev = NoNode, ![n].next = NoNode]]

\* mutant of _insert_front: the node is linked before the tail sentinel
_insert_back(c, n) ==
    LET last == c.nodes[TAIL].prev
        n1 == [c.nodes EXCEPT ![n].prev = last, ![n].next = TAIL]
        n2 == [n1 EXCEPT ![last].next = n]
    IN [c EXCEPT !.nodes = [n2 EXCEPT ![TAIL].prev = n]]

\* LRUCache._insert_front
_insert_front(c, n) ==
    LET first == c.nodes[HEAD].next
        n1 == [c.nodes EXCEPT ![n].next = first, ![n].prev = HEAD]
        n2 == [n1 EXCEPT ![first].prev = n]
    IN [c EXCEPT !.nodes = [n2 EXCEPT ![HEAD].next = n]]

\* dict.pop(key, None)
MapPop(m, key) == [k \in (DOMAIN m) \ {key} |-> m[k]]

\* mutant of _evict_lru: the victim is taken at the head of the list
_evict_mru(c) ==
    LET mru == c.nodes[HEAD].next
    IN IF mru = NoNode \/ mru = TAIL
       THEN c
       ELSE LET c1 == _remove(c, mru)
            IN [c1 EXCEPT !.map = MapPop(c1.map, c1.nodes[mru].key)]

\* LRUCache._evict_lru
_evict_lru(c) ==
    LET lru == c.nodes[TAIL].prev
    IN IF lru = NoNode \/ lru = HEAD
       THEN c
       ELSE LET c1 == _remove(c, lru)
            IN [c1 EXCEPT !.map = MapPop(c1.map, c1.nodes[lru].key)]

\* ids reachable from the head sentinel by next pointers, at most k steps
RECURSIVE ChainFrom(_, _, _)
ChainFrom(nodes, n, k) ==
    IF n = NoNode \/ k = 0 \/ n \notin DOMAIN nodes
    THEN <<>>
    ELSE <<n>> \o ChainFrom(nodes, nodes[n].next, k - 1)

\* ids reachable from the tail sentinel by prev pointers, at most k steps
RECURSIVE ChainBack(_, _, _)
ChainBack(nodes, n, k) ==
    IF n = NoNode \/ k = 0 \/ n \notin DOMAIN nodes
    THEN <<>>
    ELSE <<n>> \o ChainBack(nodes, nodes[n].prev, k - 1)

\* reference counting: a _Node no longer referenced by the map or the list is freed
Collect(c) ==
    LET live == {HEAD, TAIL} \cup Range(c.map)
                \cup SeqToSet(ChainFrom(c.nodes, HEAD, Cardinality(DOMAIN c.nodes)))
    IN [c EXCEPT !.nodes = [i \in (DOMAIN c.nodes) \cap live |-> c.nodes[i]]]

\* mutant of get: a hit does not move the node to the front
get_no_refresh(c, key) ==
    IF key \notin DOMAIN c.map
    THEN [cache |-> [c EXCEPT !.misses = c.misses + 1], ret |-> None]
    ELSE [cache |-> [c EXCEPT !.hits = c.hits + 1], ret |-> c.nodes[c.map[key]].value]

\* mutant of get: a miss is not counted
get_miss_uncounted(c, key) ==
    IF key \notin DOMAIN c.map
    THEN [cache |-> c, ret |-> None]
    ELSE LET node == c.map[key]
             c1 == _insert_front(_remove(c, node), node)
         IN [cache |-> [c1 EXCEPT !.hits = c1.hits + 1], ret |-> c1.nodes[node].value]

\* LRUCache.get: the cache after the call and the returned Optional value
get(c, key) ==
    IF key \notin DOMAIN c.map
    THEN [cache |-> [c EXCEPT !.misses = c.misses + 1], ret |-> None]
    ELSE LET node == c.map[key]
             c1 == _insert_front(_remove(c, node), node)
         IN [cache |-> [c1 EXCEPT !.hits = c1.hits + 1], ret |-> c1.nodes[node].value]

\* LRUCache.put
put(c, key, value) ==
    IF key \in DOMAIN c.map
    THEN LET node == c.map[key]
             c1 == [c EXCEPT !.nodes[node].value = Some(value)]
         IN _insert_front(_remove(c1, node), node)
    ELSE LET node == FreshId(c)
             c1 == [c EXCEPT !.nodes = (node :> NewNode(key, Some(value))) @@ c.nodes,
                             !.map = (key :> node) @@ c.map]
             c2 == _insert_front(c1, node)
         IN Collect(IF Cardinality(DOMAIN c2.map) > c2.capacity THEN _evict_lru(c2) ELSE c2)

\* LRUCache.stats; hit_ratio is the fraction num/den (0.0 is 0/1)
stats(c) ==
    LET total == c.hits + c.misses
    IN [capacity  |-> c.capacity,
        size      |-> Cardinality(DOMAIN c.map),
        hits      |-> c.hits,
        misses    |-> c.misses,
        hit_ratio |-> IF total # 0 THEN [num |-> c.hits, den |-> total]
                                  ELSE [num |-> 0, den |-> 1]]

\* the keys of the recency list, head (most recent) to tail (least recent)
Order(c) ==
    LET ids == ChainFrom(c.nodes, c.nodes[HEAD].next, Cardinality(DOMAIN c.nodes))
        real == SelectSeq(ids, LAMBDA i : i # TAIL)
    IN [i \in 1..Len(real) |-> c.nodes[real[i]].key]

Held(c) == DOMAIN c.map

\* ------------------------------------------------- preprocess (tokenizer)
STOPWORDS == {
    <<"a">>, <<"a", "n">>, <<"t", "h", "e">>, <<"a", "n", "d">>, <<"o", "r">>,
    <<"b", "u", "t">>, <<"i", "f">>, <<"t", "h", "e", "n">>, <<"e", "l", "s", "e">>,
    <<"f", "o", "r">>, <<"t", "o">>, <<"o", "f">>, <<"i", "n">>, <<"o", "n">>,
    <<"a", "t">>, <<"b", "y">>, <<"w", "i", "t", "h">>, <<"i", "s">>,
    <<"a", "r", "e">>, <<"w", "a", "s">>, <<"w", "e", "r", "e">>, <<"b", "e">>,
    <<"b", "e", "e", "n">>, <<"b", "e", "i", "n", "g">>, <<"i", "t">>,
    <<"i", "t", "s">>, <<"a", "s">>, <<"t", "h", "a", "t">>, <<"t", "h", "i", "s">>,
    <<"t", "h", "e", "s", "e">>, <<"t", "h", "o", "s", "e">>, <<"n", "o", "t">>,
    <<"n", "o">>, <<"d", "o">>, <<"d", "o", "e", "s">>, <<"d", "i", "d">>,
    <<"h", "o", "w">>, <<"w", "h", "y">>, <<"w", "h", "a", "t">>,
    <<"w", "h", "i", "c", "h">>, <<"w", "h", "o">>, <<"w", "h", "o", "m">>,
    <<"f", "r", "o", "m">>}

UpperChars == <<"A", "B", "C", "D", "E", "F", "G", "H", "I", "J", "K", "L", "M", "N", "O", "P", "Q", "R", "S", "T", "U", "V", "W", "X", "Y", "Z">>
LowerChars == <<"a", "b", "c", "d", "e", "f", "g", "h", "i", "j", "k", "l", "m", "n", "o", "p", "q", "r", "s", "t", "u", "v", "w", "x", "y", "z">>
Digits == {"0", "1", "2", "3", "4", "5", "6", "7", "8", "9"}

\* the characters the pattern [^a-z0-9] does not match
TokenChars == SeqToSet(LowerChars) \cup Digits

\* str.isspace for the characters str.strip and str.split treat as blank
Whitespace == {" ", "\t", "\n", "\r"}

\* the characters str.lower changes
UpperSet == SeqToSet(UpperChars)

\* str.lower, one character
LowerChar(ch) ==
    IF ch \in UpperSet
    THEN LowerChars[CHOOSE i \in 1..Len(UpperChars) : UpperChars[i] = ch]
    ELSE ch

\* str.lower
Lower(text) == [i \in 1..Len(text) |-> LowerChar(text[i])]

\* _TOKEN_RE.sub(" ", text): every maximal run of characters outside [a-z0-9]
\* becomes one space
RECURSIVE TokenReSub(_)
TokenReSub(text) ==
    IF text = <<>> THEN <<>>
    ELSE IF text[1] \in TokenChars THEN <<text[1]>> \o TokenReSub(Tail(text))
    ELSE IF Len(text) >= 2 /\ text[2] \notin TokenChars THEN TokenReSub(Tail(text))
    ELSE <<" ">> \o TokenReSub(Tail(text))

\* str.split(): the maximal runs of non-blank characters, in order
RECURSIVE SplitFrom(_, _)
SplitFrom(text, word) ==
    IF text = <<>> THEN (IF word = <<>> THEN <<>> ELSE <<word>>)
    ELSE IF text[1] \in Whitespace
         THEN (IF word = <<>> THEN <<>> ELSE <<word>>) \o SplitFrom(Tail(text), <<>>)
         ELSE SplitFrom(Tail(text), Append(word, text[1]))
Split(text) == SplitFrom(text, <<>>)

\* str.strip()
RECURSIVE LStrip(_)
LStrip(text) ==
    IF text # <<>> /\ text[1] \in Whitespace THEN LStrip(Tail(text)) ELSE text
RECURSIVE RStrip(_)
RStrip(text) ==
    IF text # <<>> /\ text[Len(text)] \in Whitespace
    THEN RStrip(SubSeq(text, 1, Len(text) - 1)) ELSE text
Strip(text) == RStrip(LStrip(text))

\* " ".join(toks)
RECURSIVE JoinSpace(_)
JoinSpace(toks) ==
    IF toks = <<>> THEN <<>>
    ELSE IF Len(toks) = 1 THEN toks[1]
    ELSE toks[1] \o <<" ">> \o JoinSpace(Tail(toks))

\* mutant of preprocess: stop-words are kept
preprocess_keeps_stopwords(text) ==
    IF text = <<>> THEN <<>>
    ELSE SelectSeq(Split(TokenReSub(Lower(text))), LAMBDA t : t # <<>>)

\* preprocess(text): lowercase, replace non-alphanumerics, split, drop stop-words;
\* text is an Optional-free str here, None and "" both give []
preprocess(text) ==
    IF text = <<>> THEN <<>>
    ELSE SelectSeq(Split(TokenReSub(Lower(text))),
                   LAMBDA t : t # <<>> /\ t \notin STOPWORDS)

\* ---------------------------------------------------- fixed-point floats
Scale == 1000

\* math.log(n) for n = 1..12, in thousandths
LnTable == <<0, 693, 1099, 1386, 1609, 1792, 1946, 2079, 2197, 2303, 2398, 2485>>
Ln(n) == LnTable[n]

\* float product and quotient
Mul(a, b) == (a * b) \div Scale
Div(a, b) == (a * Scale) \div b

\* the integer square root of n, between lo and hi (lo * lo <= n < hi * hi)
RECURSIVE SqrtSearch(_, _, _)
SqrtSearch(n, lo, hi) ==
    IF hi - lo <= 1 THEN lo
    ELSE LET mid == (lo + hi) \div 2
         IN IF mid * mid <= n THEN SqrtSearch(n, mid, hi) ELSE SqrtSearch(n, lo, mid)

\* math.sqrt
Sqrt(x) == SqrtSearch(x * Scale, 0, Min(x * Scale + 1, 46340))

\* ------------------------------------------------------------ sorting
\* sorted(..., key=...): a stable sort of records by the key (k1, k2), ascending
KeyLE(a, b) == a.k1 < b.k1 \/ (a.k1 = b.k1 /\ a.k2 <= b.k2)

RECURSIVE InsertSorted(_, _)
InsertSorted(s, x) ==
    IF s = <<>> THEN <<x>>
    ELSE IF KeyLE(s[1], x) THEN <<s[1]>> \o InsertSorted(Tail(s), x)
    ELSE <<x>> \o s

RECURSIVE SortKeyed(_)
SortKeyed(s) ==
    IF s = <<>> THEN <<>>
    ELSE InsertSorted(SortKeyed(SubSeq(s, 1, Len(s) - 1)), s[Len(s)])

\* sorted(set of int)
RECURSIVE SortedInts(_)
SortedInts(S) ==
    IF S = {} THEN <<>>
    ELSE LET m == CHOOSE x \in S : \A y \in S : x <= y
         IN <<m>> \o SortedInts(S \ {m})

\* ------------------------------------------------------ build_index (indexer)
SupportedExts == {".pdf", ".docx", ".doc"}

\* the distinct tokens of a token sequence: the keys of Counter(tokens)
TokenSet(tokens) == SeqToSet(tokens)

\* mutant of Count: a term is counted once however often it occurs
Count_presence(tokens, t) == IF \E i \in 1..Len(tokens) : tokens[i] = t THEN 1 ELSE 0

\* Counter(tokens)[t]
Count(tokens, t) == Cardinality({i \in 1..Len(tokens) : tokens[i] = t})

\* the loop state before the first file
EmptyBuild ==
    [doc_id_map |-> <<>>, forward_index |-> <<>>, postings |-> <<>>, df |-> <<>>,
     doc_id |-> 0]

\* mutant of IngestFile: a text that is empty after strip() uses up a doc_id
IngestFile_gap_on_empty(st, name, file) ==
    IF file.ext \notin SupportedExts THEN st
    ELSE IF file.extract = None THEN st
    ELSE LET text == Strip(file.extract[1])
         IN IF text = <<>> THEN [st EXCEPT !.doc_id = @ + 1]
            ELSE LET tokens == preprocess(text)
                     terms == TokenSet(tokens)
                     old(t) == IF t \in DOMAIN st.postings THEN st.postings[t] ELSE <<>>
                     olddf(t) == IF t \in DOMAIN st.df THEN st.df[t] ELSE 0
                 IN [doc_id_map    |-> (st.doc_id :> name) @@ st.doc_id_map,
                     forward_index |-> (st.doc_id :> text) @@ st.forward_index,
                     postings      |-> [t \in (DOMAIN st.postings) \cup terms |->
                                           IF t \in terms
                                           THEN Append(old(t), [doc_id |-> st.doc_id,
                                                                tf |-> Count(tokens, t)])
                                           ELSE st.postings[t]],
                     df            |-> [t \in (DOMAIN st.df) \cup terms |->
                                           IF t \in terms THEN olddf(t) + 1 ELSE st.df[t]],
                     doc_id        |-> st.doc_id + 1]

\* mutant of IngestFile: a failed extraction uses up a doc_id
IngestFile_gap_on_failure(st, name, file) ==
    IF file.ext \notin SupportedExts THEN st
    ELSE IF file.extract = None THEN [st EXCEPT !.doc_id = @ + 1]
    ELSE LET text == Strip(file.extract[1])
         IN IF text = <<>> THEN st
            ELSE LET tokens == preprocess(text)
                     terms == TokenSet(tokens)
                     old(t) == IF t \in DOMAIN st.postings THEN st.postings[t] ELSE <<>>
                     olddf(t) == IF t \in DOMAIN st.df THEN st.df[t] ELSE 0
                 IN [doc_id_map    |-> (st.doc_id :> name) @@ st.doc_id_map,
                     forward_index |-> (st.doc_id :> text) @@ st.forward_index,
                     postings      |-> [t \in (DOMAIN st.postings) \cup terms |->
                                           IF t \in terms
                                           THEN Append(old(t), [doc_id |-> st.doc_id,
                                                                tf |-> Count(tokens, t)])
                                           ELSE st.postings[t]],
                     df            |-> [t \in (DOMAIN st.df) \cup terms |->
                                           IF t \in terms THEN olddf(t) + 1 ELSE st.df[t]],
                     doc_id        |-> st.doc_id + 1]

\* mutant of IngestFile: df grows by the term frequency instead of by one
IngestFile_df_by_tf(st, name, file) ==
    IF file.ext \notin SupportedExts THEN st
    ELSE IF file.extract = None THEN st
    ELSE LET text == Strip(file.extract[1])
         IN IF text = <<>> THEN st
            ELSE LET tokens == preprocess(text)
                     terms == TokenSet(tokens)
                     old(t) == IF t \in DOMAIN st.postings THEN st.postings[t] ELSE <<>>
                     olddf(t) == IF t \in DOMAIN st.df THEN st.df[t] ELSE 0
                 IN [doc_id_map    |-> (st.doc_id :> name) @@ st.doc_id_map,
                     forward_index |-> (st.doc_id :> text) @@ st.forward_index,
                     postings      |-> [t \in (DOMAIN st.postings) \cup terms |->
                                           IF t \in terms
                                           THEN Append(old(t), [doc_id |-> st.doc_id,
                                                                tf |-> Count(tokens, t)])
                                           ELSE st.postings[t]],
                     df            |-> [t \in (DOMAIN st.df) \cup terms |->
                                           IF t \in terms THEN olddf(t) + Count(tokens, t) ELSE st.df[t]],
                     doc_id        |-> st.doc_id + 1]

\* one iteration of the loop over sorted(os.listdir(documents_dir)); a file is
\* [ext |-> lowercased extension, extract |-> the extractor's text, None if it raises]
IngestFile(st, name, file) ==
    IF file.ext \notin SupportedExts THEN st
    ELSE IF file.extract = None THEN st
    ELSE LET text == Strip(file.extract[1])
         IN IF text = <<>> THEN st
            ELSE LET tokens == preprocess(text)
                     terms == TokenSet(tokens)
                     old(t) == IF t \in DOMAIN st.postings THEN st.postings[t] ELSE <<>>
                     olddf(t) == IF t \in DOMAIN st.df THEN st.df[t] ELSE 0
                 IN [doc_id_map    |-> (st.doc_id :> name) @@ st.doc_id_map,
                     forward_index |-> (st.doc_id :> text) @@ st.forward_index,
                     postings      |-> [t \in (DOMAIN st.postings) \cup terms |->
                                           IF t \in terms
                                           THEN Append(old(t), [doc_id |-> st.doc_id,
                                                                tf |-> Count(tokens, t)])
                                           ELSE st.postings[t]],
                     df            |-> [t \in (DOMAIN st.df) \cup terms |->
                                           IF t \in terms THEN olddf(t) + 1 ELSE st.df[t]],
                     doc_id        |-> st.doc_id + 1]

\* the loop over the sorted file names
RECURSIVE IngestAll(_, _, _)
IngestAll(st, names, dir) ==
    IF names = <<>> THEN st
    ELSE IngestAll(IngestFile(st, names[1], dir[names[1]]), Tail(names), dir)

\* plist.sort(key=lambda x: x["doc_id"])
SortPostings(plist) ==
    LET keyed == [i \in 1..Len(plist) |-> [k1 |-> plist[i].doc_id, k2 |-> 0, v |-> plist[i]]]
        sorted == SortKeyed(keyed)
    IN [i \in 1..Len(sorted) |-> sorted[i].v]

\* idf[token] = math.log((N + 1) / (dfi + 1)) + 1.0
Idf(N, dfi) == Ln(N + 1) - Ln(dfi + 1) + Scale

\* w_tf = 1.0 + math.log(tf)
WTf(tf) == Scale + Ln(tf)

\* the sum of f[x] over x in S
RECURSIVE Sum(_, _)
Sum(f, S) ==
    IF S = {} THEN 0
    ELSE LET x == CHOOSE y \in S : TRUE IN f[x] + Sum(f, S \ {x})

\* build_index(documents_dir); dir maps each file name (its rank in name order)
\* to the file
build_index(dir) ==
    LET st == IngestAll(EmptyBuild, SortedInts(DOMAIN dir), dir)
        postings == [t \in DOMAIN st.postings |-> SortPostings(st.postings[t])]
        N == Cardinality(DOMAIN st.doc_id_map)
        idf == [t \in DOMAIN st.df |-> Idf(N, st.df[t])]
        \* doc_norm is a defaultdict: only a document with a posting gets an entry
        withTerms == {d \in 0..(st.doc_id - 1) :
                        \E t \in DOMAIN postings :
                           \E i \in 1..Len(postings[t]) : postings[t][i].doc_id = d}
        sq(d) == [t \in DOMAIN postings |->
                    Sum([i \in 1..Len(postings[t]) |->
                            IF postings[t][i].doc_id = d
                            THEN LET w == Mul(WTf(postings[t][i].tf), idf[t]) IN Mul(w, w)
                            ELSE 0],
                        1..Len(postings[t]))]
    IN [doc_id_map    |-> st.doc_id_map,
        forward_index |-> st.forward_index,
        postings      |-> postings,
        df            |-> st.df,
        idf           |-> idf,
        N             |-> N,
        doc_norm      |-> [d \in withTerms |-> Sqrt(Sum(sq(d), DOMAIN postings))]]

\* ------------------------------------------------------ search (query engine)
\* {e["doc_id"] for e in plist}
DocIds(plist) == {plist[i].doc_id : i \in 1..Len(plist)}

\* the loop of _and_intersect over posting_lists[1:]; None stands for the early
\* return of [] when the intersection becomes empty
RECURSIVE IntersectRest(_, _)
IntersectRest(common, lists) ==
    IF lists = <<>> THEN Some(common)
    ELSE LET c == common \cap DocIds(lists[1])
         IN IF c = {} THEN None ELSE IntersectRest(c, Tail(lists))

\* mutant of _and_intersect: the union of the lists' documents (OR retrieval)
_or_union(posting_lists) ==
    IF posting_lists = <<>> THEN <<>>
    ELSE SortedInts(UNION {DocIds(posting_lists[i]) : i \in 1..Len(posting_lists)})

\* _and_intersect(posting_lists)
_and_intersect(posting_lists) ==
    IF posting_lists = <<>> THEN <<>>
    ELSE LET keyed == [i \in 1..Len(posting_lists) |->
                          [k1 |-> Len(posting_lists[i]), k2 |-> 0, v |-> posting_lists[i]]]
             sorted == SortKeyed(keyed)
             common == IntersectRest(DocIds(sorted[1].v),
                                     [i \in 1..(Len(sorted) - 1) |-> sorted[i + 1].v])
         IN IF common = None THEN <<>> ELSE SortedInts(common[1])

\* tf_map[t].get(d): the tf of the last entry of postings[t] for document d, 0 for None
TfOf(plist, d) ==
    IF d \in DocIds(plist)
    THEN plist[CHOOSE i \in 1..Len(plist) :
                  /\ plist[i].doc_id = d
                  /\ \A j \in (i + 1)..Len(plist) : plist[j].doc_id # d].tf
    ELSE 0

\* doc_norm.get(d, 1.0)
NormOf(index, d) == IF d \in DOMAIN index.doc_norm THEN index.doc_norm[d] ELSE Scale

\* the score of candidate d: the loop over set(tokens), then the division by the norm
Score(index, terms, d) ==
    LET complete == \A t \in terms : TfOf(index.postings[t], d) # 0
        s == IF complete
             THEN Sum([t \in terms |-> Mul(WTf(TfOf(index.postings[t], d)),
                                           IF t \in DOMAIN index.idf THEN index.idf[t] ELSE 0)],
                      terms)
             ELSE 0
        norm == NormOf(index, d)
    IN IF norm > 0 THEN Div(s, norm) ELSE s

\* mutant of Rank: equal scores are ordered by descending doc_id
Rank_ties_descending(scored) ==
    LET keyed == [i \in 1..Len(scored) |->
                     [k1 |-> -scored[i][2], k2 |-> -scored[i][1], v |-> scored[i]]]
        sorted == SortKeyed(keyed)
    IN [i \in 1..Len(sorted) |-> sorted[i].v]

\* sorted(scores.items(), key=lambda x: (-x[1], x[0]))
Rank(scored) ==
    LET keyed == [i \in 1..Len(scored) |->
                     [k1 |-> -scored[i][2], k2 |-> scored[i][1], v |-> scored[i]]]
        sorted == SortKeyed(keyed)
    IN [i \in 1..Len(sorted) |-> sorted[i].v]

\* mutant of search: a term without postings is skipped instead of ending the search
search_skips_missing(query, index) ==
    LET tokens == preprocess(query)
        posted == SelectSeq(tokens, LAMBDA t : /\ t \in DOMAIN index.postings
                                               /\ index.postings[t] # <<>>)
    IN IF posted = <<>> THEN <<>>
       ELSE LET lists == [i \in 1..Len(posted) |-> index.postings[posted[i]]]
                candidate_docs == _and_intersect(lists)
            IN IF candidate_docs = <<>> THEN <<>>
               ELSE Rank([i \in 1..Len(candidate_docs) |->
                            <<candidate_docs[i],
                              Score(index, TokenSet(posted), candidate_docs[i])>>])

\* search(query, index): the list of (doc_id, score), best first
search(query, index) ==
    LET tokens == preprocess(query)
    IN IF tokens = <<>> THEN <<>>
       ELSE IF \E i \in 1..Len(tokens) :
                  \/ tokens[i] \notin DOMAIN index.postings
                  \/ index.postings[tokens[i]] = <<>>
       THEN <<>>
       ELSE LET lists == [i \in 1..Len(tokens) |-> index.postings[tokens[i]]]
                candidate_docs == _and_intersect(lists)
            IN IF candidate_docs = <<>> THEN <<>>
               ELSE Rank([i \in 1..Len(candidate_docs) |->
                            <<candidate_docs[i],
                              Score(index, TokenSet(tokens), candidate_docs[i])>>])

\* ------------------------------------------------ save_index, load_index (storage)
\* json.dump writes every key of a dict as a string: the int key d becomes str(d).
\* The string str(d) is the element JsonKey(d) here, different from every int d >= 0
\* (TLC does not compare an integer with a string)
JsonKey(d) == -(d + 1)

\* int(k) for the string k = str(d)
IntOfKey(k) == -k - 1

\* json.dump of a dict with int keys
DumpIntKeyed(m) == [k \in {JsonKey(d) : d \in DOMAIN m} |-> m[IntOfKey(k)]]

\* save_index(index_data, path): the JSON document written to the file; str keys,
\* lists, ints and floats (written by repr) are written as they are
save_index(index_data) ==
    [doc_id_map    |-> DumpIntKeyed(index_data.doc_id_map),
     forward_index |-> DumpIntKeyed(index_data.forward_index),
     postings      |-> index_data.postings,
     df            |-> index_data.df,
     idf           |-> index_data.idf,
     N             |-> index_data.N,
     doc_norm      |-> DumpIntKeyed(index_data.doc_norm)]

\* load_index(path): json.load returns the document as dicts and lists; the keys
\* of every dict are the strings of the file
load_index(file) == file

\* ------------------------------------------------------------ SearchService
\* SearchService.__init__; total_time_ms, a sum of wall-clock readings, is left out
NewService(index, cache_capacity) ==
    [index         |-> index,
     cache         |-> IF cache_capacity > 0 THEN Some(NewCache(cache_capacity)) ELSE None,
     total_queries |-> 0]

\* mutant of _normalize_key: the terms are sorted before they are joined
_normalize_key_sorted(query) ==
    LET toks == preprocess(query)
        keyed == [i \in 1..Len(toks) |-> [k1 |-> Len(toks[i]), k2 |-> 0, v |-> toks[i]]]
        sorted == SortKeyed(keyed)
    IN JoinSpace([i \in 1..Len(sorted) |-> sorted[i].v])

\* mutant of _normalize_key: the key is the first term alone
_normalize_key_first_term(query) ==
    LET toks == preprocess(query)
    IN IF toks = <<>> THEN <<>> ELSE toks[1]

\* SearchService._normalize_key
_normalize_key(query) == JoinSpace(preprocess(query))

\* mutant of service_search: an empty engine result is stored too
service_search_stores_empty(s, query) ==
    LET s1 == [s EXCEPT !.total_queries = s.total_queries + 1]
        q == Strip(IF query = None THEN <<>> ELSE query[1])
        key == JoinSpace(preprocess(q))
        looked == IF s1.cache # None THEN get(s1.cache[1], key)
                  ELSE [cache |-> None, ret |-> None]
        s2 == IF s1.cache # None THEN [s1 EXCEPT !.cache = Some(looked.cache)] ELSE s1
        results == search(q, s2.index)
    IN IF q = <<>> \/ key = <<>>
       THEN [svc |-> s1, results |-> <<>>, cached |-> FALSE, engine |-> FALSE]
       ELSE IF s1.cache # None /\ looked.ret # None
       THEN [svc |-> s2, results |-> looked.ret[1], cached |-> TRUE, engine |-> FALSE]
       ELSE [svc     |-> IF s2.cache # None
                         THEN [s2 EXCEPT !.cache = Some(put(s2.cache[1], key, results))]
                         ELSE s2,
             results |-> results,
             cached  |-> FALSE,
             engine  |-> TRUE]

\* mutant of service_search: the empty-query return comes before the count
service_search_counts_late(s, query) ==
    LET s1 == [s EXCEPT !.total_queries = s.total_queries + 1]
        q == Strip(IF query = None THEN <<>> ELSE query[1])
        key == JoinSpace(preprocess(q))
        looked == IF s1.cache # None THEN get(s1.cache[1], key)
                  ELSE [cache |-> None, ret |-> None]
        s2 == IF s1.cache # None THEN [s1 EXCEPT !.cache = Some(looked.cache)] ELSE s1
        results == search(q, s2.index)
    IN IF q = <<>>
       THEN [svc |-> s, results |-> <<>>, cached |-> FALSE, engine |-> FALSE]
       ELSE IF key = <<>>
       THEN [svc |-> s1, results |-> <<>>, cached |-> FALSE, engine |-> FALSE]
       ELSE IF s1.cache # None /\ looked.ret # None
       THEN [svc |-> s2, results |-> looked.ret[1], cached |-> TRUE, engine |-> FALSE]
       ELSE [svc     |-> IF s2.cache # None /\ results # <<>>
                         THEN [s2 EXCEPT !.cache = Some(put(s2.cache[1], key, results))]
                         ELSE s2,
             results |-> results,
             cached  |-> FALSE,
             engine  |-> TRUE]

\* mutant of service_search: a miss never populates the cache
service_search_no_populate(s, query) ==
    LET s1 == [s EXCEPT !.total_queries = s.total_queries + 1]
        q == Strip(IF query = None THEN <<>> ELSE query[1])
        key == JoinSpace(preprocess(q))
        looked == IF s1.cache # None THEN get(s1.cache[1], key)
                  ELSE [cache |-> None, ret |-> None]
        s2 == IF s1.cache # None THEN [s1 EXCEPT !.cache = Some(looked.cache)] ELSE s1
        results == search(q, s2.index)
    IN IF q = <<>> \/ key = <<>>
       THEN [svc |-> s1, results |-> <<>>, cached |-> FALSE, engine |-> FALSE]
       ELSE IF s1.cache # None /\ looked.ret # None
       THEN [svc |-> s2, results |-> looked.ret[1], cached |-> TRUE, engine |-> FALSE]
       ELSE [svc |-> s2, results |-> results, cached |-> FALSE, engine |-> TRUE]

\* mutant of service_search: the cache is looked up before the empty-key return
service_search_lookup_first(s, query) ==
    LET s1 == [s EXCEPT !.total_queries = s.total_queries + 1]
        q == Strip(IF query = None THEN <<>> ELSE query[1])
        key == JoinSpace(preprocess(q))
        looked == IF s1.cache # None THEN get(s1.cache[1], key)
                  ELSE [cache |-> None, ret |-> None]
        s2 == IF s1.cache # None THEN [s1 EXCEPT !.cache = Some(looked.cache)] ELSE s1
        results == search(q, s2.index)
    IN IF q = <<>>
       THEN [svc |-> s1, results |-> <<>>, cached |-> FALSE, engine |-> FALSE]
       ELSE IF s1.cache # None /\ looked.ret # None
       THEN [svc |-> s2, results |-> looked.ret[1], cached |-> TRUE, engine |-> FALSE]
       ELSE IF key = <<>>
       THEN [svc |-> s2, results |-> <<>>, cached |-> FALSE, engine |-> FALSE]
       ELSE [svc     |-> IF s2.cache # None /\ results # <<>>
                         THEN [s2 EXCEPT !.cache = Some(put(s2.cache[1], key, results))]
                         ELSE s2,
             results |-> results,
             cached  |-> FALSE,
             engine  |-> TRUE]

\* SearchService.search(query), query an Optional[str]: the service after the
\* call, the returned results and cached flag, and whether core_search was called
service_search(s, query) ==
    LET s1 == [s EXCEPT !.total_queries = s.total_queries + 1]
        q == Strip(IF query = None THEN <<>> ELSE query[1])
        key == _normalize_key(q)
        looked == IF s1.cache # None THEN get(s1.cache[1], key)
                  ELSE [cache |-> None, ret |-> None]
        s2 == IF s1.cache # None THEN [s1 EXCEPT !.cache = Some(looked.cache)] ELSE s1
        results == search(q, s2.index)
    IN IF q = <<>> \/ key = <<>>
       THEN [svc |-> s1, results |-> <<>>, cached |-> FALSE, engine |-> FALSE]
       ELSE IF s1.cache # None /\ looked.ret # None
       THEN [svc |-> s2, results |-> looked.ret[1], cached |-> TRUE, engine |-> FALSE]
       ELSE [svc     |-> IF s2.cache # None /\ results # <<>>
                         THEN [s2 EXCEPT !.cache = Some(put(s2.cache[1], key, results))]
                         ELSE s2,
             results |-> results,
             cached  |-> FALSE,
             engine  |-> TRUE]

\* SearchService.stats, without avg_latency_ms
service_stats(s) ==
    [total_queries |-> s.total_queries,
     cache |-> IF s.cache # None THEN Some(stats(s.cache[1])) ELSE None]

\* ------------------------------------------------------ SpecLRU: actions
KeyNames == <<"a", "b", "c", "d", "e", "f">>
\* one key more than the largest capacity, so that a full cache can meet a new key
Keys == {<<KeyNames[i]>> : i \in 1..(MaxCapacity + 1)}
Values == {1, 2}
Capacities == (-1)..MaxCapacity

NoCall == [op |-> "none", key |-> <<>>, value |-> None, ret |-> None,
           raised |-> FALSE, evicted |-> {}]

\* the module globals of main.py and the tokenizer's input while another
\* specification runs
ApiIdle ==
    /\ reqs = <<>>
    /\ nStarted = 0

UploadIdle ==
    /\ UPLOADED_DOCUMENT = <<>>
    /\ UPLOADED_DOCUMENT_CACHE = <<>>
    /\ uploads = <<>>
    /\ upLast = <<>>
    /\ asked = {}
    /\ replaced = <<>>

TokIdle ==
    /\ tokText = <<>>
    /\ tokOut = <<>>

FrontIdle == ApiIdle /\ UploadIdle /\ TokIdle

\* the history sequence with key k moved (or added) to the front
Touch(seq, k) == <<k>> \o SelectSeq(seq, LAMBDA x : x # k)

LRUInit ==
    /\ cache = None
    /\ lruLast = NoCall
    /\ touched = <<>>
    /\ latest = <<>>
    /\ nGets = 0
    /\ nPuts = 0
    /\ watch = [key |-> None, newKeys |-> {}]
    /\ docsDir = <<>>
    /\ builtIndex = None
    /\ lastQuery = None
    /\ lastResult = <<>>
    /\ svc = None
    /\ svcLog = <<>>
    /\ loaded = None
    /\ loadedResult = None
    /\ callers = <<>>
    /\ returned = {}
    /\ FrontIdle

\* mutant of Construct: only a negative capacity is rejected
Construct_accepts_zero(capacity) ==
    /\ cache = None
    /\ IF capacity < 0
       THEN /\ cache' = None
            /\ lruLast' = [NoCall EXCEPT !.op = "init", !.raised = TRUE]
       ELSE /\ cache' = Some(NewCache(capacity))
            /\ lruLast' = [NoCall EXCEPT !.op = "init"]
    /\ UNCHANGED <<touched, latest, nGets, nPuts, watch>>
    /\ UNCHANGED <<engVars, svcVars, persistVars, rdVars, frontVars>>

\* LRUCache(capacity): raises ValueError when capacity <= 0
Construct(capacity) ==
    /\ cache = None
    /\ IF capacity <= 0
       THEN /\ cache' = None
            /\ lruLast' = [NoCall EXCEPT !.op = "init", !.raised = TRUE]
       ELSE /\ cache' = Some(NewCache(capacity))
            /\ lruLast' = [NoCall EXCEPT !.op = "init"]
    /\ UNCHANGED <<touched, latest, nGets, nPuts, watch>>
    /\ UNCHANGED <<engVars, svcVars, persistVars, rdVars, frontVars>>

\* cache.get(key)
Get(key) ==
    /\ cache # None
    /\ nGets < MaxGets
    /\ LET r == get(cache[1], key)
           hit == key \in Held(cache[1])
       IN /\ cache' = Some(r.cache)
          /\ lruLast' = [NoCall EXCEPT !.op = "get", !.key = key, !.ret = r.ret,
                                       !.evicted = Held(cache[1]) \ Held(r.cache)]
          /\ touched' = IF hit THEN Touch(touched, key) ELSE touched
          /\ watch' = IF hit THEN [key |-> Some(key), newKeys |-> {}] ELSE watch
    /\ nGets' = nGets + 1
    /\ UNCHANGED <<latest, nPuts>>
    /\ UNCHANGED <<engVars, svcVars, persistVars, rdVars, frontVars>>

\* cache.put(key, value)
Put(key, value) ==
    /\ cache # None
    /\ nPuts < MaxPuts
    /\ LET c == put(cache[1], key, value)
       IN /\ cache' = Some(c)
          /\ lruLast' = [NoCall EXCEPT !.op = "put", !.key = key, !.value = Some(value),
                                       !.evicted = Held(cache[1]) \ Held(c)]
          /\ watch' = IF watch.key = None THEN watch
                      ELSE IF key \in Held(cache[1])
                      THEN [key |-> None, newKeys |-> {}]
                      ELSE [watch EXCEPT !.newKeys = @ \cup {key}]
    /\ touched' = Touch(touched, key)
    /\ latest' = (key :> value) @@ latest
    /\ nPuts' = nPuts + 1
    /\ UNCHANGED nGets
    /\ UNCHANGED <<engVars, svcVars, persistVars, rdVars, frontVars>>

\* cache.stats()
Stats ==
    /\ cache # None
    /\ lruLast' = [NoCall EXCEPT !.op = "stats", !.ret = Some(stats(cache[1]))]
    /\ UNCHANGED <<cache, touched, latest, nGets, nPuts, watch>>
    /\ UNCHANGED <<engVars, svcVars, persistVars, rdVars, frontVars>>

LRUNext ==
    \/ \E capacity \in Capacities : Construct(capacity)
    \/ \E key \in Keys : Get(key)
    \/ \E key \in Keys, value \in Values : Put(key, value)
    \/ Stats

SpecLRU == LRUInit /\ [][LRUNext]_vars

\* ------------------------------------------------ SpecEngine: inputs, actions
\* the raw words texts are made of, with a capital and punctuation
Lexicon == {<<"S", "e", "a", "r", "c", "h">>,
            <<"e", "n", "g", "i", "n", "e", "s", ",">>}

\* a text of only blanks, a text of only a stop-word, a text with a stop-word
BlankText == <<" ", " ">>
StopText == <<"T", "h", "e">>
StopSearchText == <<"T", "h", "e", " ", "S", "e", "a", "r", "c", "h">>

\* the texts of at most n words joined by single spaces, and the three texts above
TextsUpTo(n) ==
    {JoinSpace(ws) : ws \in UNION {[1..k -> Lexicon] : k \in 0..n}}
    \cup {BlankText, StopText, StopSearchText}

Texts == TextsUpTo(MaxWords)

\* the documents and the query of the two-document scenario
ScenarioDoc0 == <<"s", "e", "a", "r", "c", "h", " ", "e", "n", "g", "i", "n", "e", "s", " ", "i", "n", "d", "e", "x", " ", "d", "o", "c", "u", "m", "e", "n", "t", "s">>
ScenarioDoc1 == <<"s", "e", "a", "r", "c", "h", " ", "i", "n", "d", "e", "x", "i", "n", "g", " ", "w", "o", "r", "k", "s">>
ScenarioQuery == <<"s", "e", "a", "r", "c", "h", " ", "e", "n", "g", "i", "n", "e", "s">>
ScenarioDir ==
    (1 :> [ext |-> ".pdf", extract |-> Some(ScenarioDoc0)])
    @@ (2 :> [ext |-> ".docx", extract |-> Some(ScenarioDoc1)])

\* extract_text_from_pdf(pdf_bytes): the text of the PDF, or None when the
\* extraction fails, which it reports by raising PDFExtractionError
PdfOutcomes == {Some(t) : t \in Texts} \cup {None}

\* a file of the directory: a PDF with any text or a failing extraction, a Word
\* file that fails or yields one word, a file with an unsupported extension
FileChoices ==
    {[ext |-> ".pdf", extract |-> o] : o \in PdfOutcomes}
    \cup {[ext |-> ".docx", extract |-> None],
          [ext |-> ".doc", extract |-> Some(<<"S", "e", "a", "r", "c", "h">>)],
          [ext |-> ".txt", extract |-> None]}

\* the directories of at most MaxFiles files (file names 1..n in name order)
Dirs == UNION {[1..n -> FileChoices] : n \in 0..MaxFiles} \cup {ScenarioDir}

Queries == Texts \cup {ScenarioQuery}

LRUIdle ==
    /\ cache = None
    /\ lruLast = NoCall
    /\ touched = <<>>
    /\ latest = <<>>
    /\ nGets = 0
    /\ nPuts = 0
    /\ watch = [key |-> None, newKeys |-> {}]

EngIdle ==
    /\ docsDir = <<>>
    /\ builtIndex = None
    /\ lastQuery = None
    /\ lastResult = <<>>

PersistIdle ==
    /\ loaded = None
    /\ loadedResult = None

ReadersIdle ==
    /\ callers = <<>>
    /\ returned = {}

EngInit ==
    /\ docsDir \in Dirs
    /\ builtIndex = None
    /\ lastQuery = None
    /\ lastResult = <<>>
    /\ LRUIdle
    /\ svc = None
    /\ svcLog = <<>>
    /\ PersistIdle
    /\ ReadersIdle
    /\ FrontIdle

\* index = build_index(documents_dir)
BuildIndex ==
    /\ builtIndex = None
    /\ builtIndex' = Some(build_index(docsDir))
    /\ UNCHANGED <<docsDir, lastQuery, lastResult>>
    /\ UNCHANGED <<lruVars, svcVars, persistVars, rdVars, frontVars>>

\* search(q, index), once per built index
Search(q) ==
    /\ builtIndex # None
    /\ lastQuery = None
    /\ lastQuery' = Some(q)
    /\ lastResult' = search(q, builtIndex[1])
    /\ UNCHANGED <<docsDir, builtIndex>>
    /\ UNCHANGED <<lruVars, svcVars, persistVars, rdVars, frontVars>>

EngNext ==
    \/ BuildIndex
    \/ \E q \in Queries : Search(q)

SpecEngine == EngInit /\ [][EngNext]_vars

\* --------------------------------------------------------- SpecPersist: actions
\* save_index(index, path); loaded = load_index(path)
SaveLoad ==
    /\ builtIndex # None
    /\ loaded = None
    /\ loaded' = Some(load_index(save_index(builtIndex[1])))
    /\ UNCHANGED loadedResult
    /\ UNCHANGED <<engVars, lruVars, svcVars, rdVars, frontVars>>

\* search(q, loaded) for the query q last put to the built index
SearchLoaded ==
    /\ loaded # None
    /\ lastQuery # None
    /\ loadedResult = None
    /\ loadedResult' = Some(search(lastQuery[1], loaded[1]))
    /\ UNCHANGED loaded
    /\ UNCHANGED <<engVars, lruVars, svcVars, rdVars, frontVars>>

PersistNext ==
    \/ BuildIndex
    \/ \E q \in Queries : Search(q)
    \/ SaveLoad
    \/ SearchLoaded

SpecPersist == EngInit /\ [][PersistNext]_vars

\* ----------------------------------------------- SpecService: inputs, actions
\* the corpora a service is built over: the two-document scenario, no document
ServiceDirs == {ScenarioDir, <<>>}

\* the queries put to the service: None, degenerate strings, spellings of one
\* token sequence, the same terms in another order, single terms, and queries
\* that match no document
ServiceQueries ==
    {None,
     Some(<<>>),
     Some(BlankText),
     Some(StopText),
     Some(ScenarioQuery),
     Some(<<" ", "S", "e", "a", "r", "c", "h", ",", " ", "E", "N", "G", "I", "N", "E", "S", "!", " ">>),
     Some(<<"e", "n", "g", "i", "n", "e", "s", " ", "s", "e", "a", "r", "c", "h">>),
     Some(<<"s", "e", "a", "r", "c", "h">>),
     Some(<<"w", "o", "r", "k", "s">>),
     Some(<<"s", "e", "a", "r", "c", "h", " ", "x", "y", "z">>),
     Some(<<"i", "n", "d", "e", "x", " ", "w", "o", "r", "k", "s">>)}

ServiceInit ==
    /\ svc = None
    /\ svcLog = <<>>
    /\ LRUIdle
    /\ EngIdle
    /\ PersistIdle
    /\ ReadersIdle
    /\ FrontIdle

\* SearchService(index, cache_capacity), over a freshly built index
ServiceConstruct(d, cache_capacity) ==
    /\ svc = None
    /\ svc' = Some(NewService(build_index(d), cache_capacity))
    /\ UNCHANGED svcLog
    /\ UNCHANGED <<lruVars, engVars, persistVars, rdVars, frontVars>>

\* service.search(q)
ServiceSearch(q) ==
    /\ svc # None
    /\ Len(svcLog) < MaxCalls
    /\ LET r == service_search(svc[1], q)
       IN /\ svc' = Some(r.svc)
          /\ svcLog' = Append(svcLog, [query |-> q, results |-> r.results,
                                       cached |-> r.cached, engine |-> r.engine])
    /\ UNCHANGED <<lruVars, engVars, persistVars, rdVars, frontVars>>

ServiceNext ==
    \/ \E d \in ServiceDirs, cache_capacity \in Capacities : ServiceConstruct(d, cache_capacity)
    \/ \E q \in ServiceQueries : ServiceSearch(q)

SpecService == ServiceInit /\ [][ServiceNext]_vars

\* ----------------------------------------------- SpecReaders: inputs, actions
\* the threads that call search on the one index of the process
Callers == {"c1", "c2"}

\* their queries: the scenario query (one match), one of its terms (two matches),
\* a query with a term in no document
ReaderQueries ==
    {ScenarioQuery,
     <<"s", "e", "a", "r", "c", "h">>,
     <<"s", "e", "a", "r", "c", "h", " ", "x", "y", "z">>}

\* a caller that is not inside search
IdleCaller ==
    [pc |-> "idle", query |-> <<>>, tokens |-> <<>>, lists |-> <<>>,
     candidate_docs |-> <<>>, scores |-> <<>>, result |-> <<>>, calls |-> 0]

\* the number of calls of search made so far, directly and through the service
TotalSearches ==
    Len(svcLog) + Sum([p \in Callers |-> callers[p].calls], Callers)

ReadersInit ==
    /\ docsDir \in ServiceDirs
    /\ builtIndex = None
    /\ lastQuery = None
    /\ lastResult = <<>>
    /\ svc = None
    /\ svcLog = <<>>
    /\ callers = [p \in Callers |-> IdleCaller]
    /\ returned = {}
    /\ LRUIdle
    /\ PersistIdle
    /\ FrontIdle

\* INDEX = build_index(...); SERVICE = SearchService(INDEX, cache_capacity=...):
\* the service holds the index the direct callers use
Startup(cache_capacity) ==
    /\ builtIndex = None
    /\ builtIndex' = Some(build_index(docsDir))
    /\ svc' = Some(NewService(build_index(docsDir), cache_capacity))
    /\ UNCHANGED <<docsDir, lastQuery, lastResult, svcLog>>
    /\ UNCHANGED <<lruVars, persistVars, rdVars, frontVars>>

\* a return of search in caller p
Return(p, c, result) ==
    /\ callers' = [callers EXCEPT ![p] = [c EXCEPT !.pc = "done", !.result = result]]
    /\ returned' = returned \cup {<<c.query, result>>}

\* caller p enters search(q, index): tokens = preprocess(query); no token, return []
Call(p, q) ==
    /\ builtIndex # None
    /\ callers[p].pc \in {"idle", "done"}
    /\ TotalSearches < MaxSearches
    /\ LET c == [IdleCaller EXCEPT !.query = q, !.tokens = preprocess(q),
                                   !.calls = callers[p].calls + 1]
       IN IF c.tokens = <<>>
          THEN Return(p, c, <<>>)
          ELSE /\ callers' = [callers EXCEPT ![p] = [c EXCEPT !.pc = "fetch"]]
               /\ UNCHANGED returned
    /\ UNCHANGED <<engVars, svcVars, lruVars, persistVars, frontVars>>

\* mutant of Fetch: the postings list is read with setdefault, which stores an
\* empty list in the index for a term it does not hold
Fetch_setdefault(p) ==
    /\ callers[p].pc = "fetch"
    /\ LET c == callers[p]
           t == c.tokens[Len(c.lists) + 1]
           postings == builtIndex[1].postings
           plist == IF t \in DOMAIN postings THEN postings[t] ELSE <<>>
           lists == Append(c.lists, plist)
       IN /\ builtIndex' = Some([builtIndex[1] EXCEPT !.postings = (t :> plist) @@ postings])
          /\ IF plist = <<>>
             THEN Return(p, c, <<>>)
             ELSE /\ callers' = [callers EXCEPT ![p] =
                                   [c EXCEPT !.lists = lists,
                                             !.pc = IF Len(lists) = Len(c.tokens)
                                                    THEN "intersect" ELSE "fetch"]]
                  /\ UNCHANGED returned
    /\ UNCHANGED <<docsDir, lastQuery, lastResult>>
    /\ UNCHANGED <<svcVars, lruVars, persistVars, frontVars>>

\* one iteration of `for t in tokens`: plist = postings.get(t); a missing or
\* empty list returns [], any other is appended to lists
Fetch(p) ==
    /\ callers[p].pc = "fetch"
    /\ LET c == callers[p]
           t == c.tokens[Len(c.lists) + 1]
           postings == builtIndex[1].postings
           plist == IF t \in DOMAIN postings THEN postings[t] ELSE <<>>
           lists == Append(c.lists, plist)
       IN IF plist = <<>>
          THEN Return(p, c, <<>>)
          ELSE /\ callers' = [callers EXCEPT ![p] =
                                [c EXCEPT !.lists = lists,
                                          !.pc = IF Len(lists) = Len(c.tokens)
                                                 THEN "intersect" ELSE "fetch"]]
               /\ UNCHANGED returned
    /\ UNCHANGED <<engVars, svcVars, lruVars, persistVars, frontVars>>

\* candidate_docs = _and_intersect(lists); no candidate, return []
Intersect(p) ==
    /\ callers[p].pc = "intersect"
    /\ LET c == callers[p]
           candidate_docs == _and_intersect(c.lists)
       IN IF candidate_docs = <<>>
          THEN Return(p, c, <<>>)
          ELSE /\ callers' = [callers EXCEPT ![p] =
                                [c EXCEPT !.candidate_docs = candidate_docs, !.pc = "score"]]
               /\ UNCHANGED returned
    /\ UNCHANGED <<engVars, svcVars, lruVars, persistVars, frontVars>>

\* one iteration of `for d in candidate_docs`: scores[d] = s, read from the
\* postings, idf and doc_norm of the index
ScoreDoc(p) ==
    /\ callers[p].pc = "score"
    /\ LET c == callers[p]
           d == c.candidate_docs[Len(c.scores) + 1]
           scores == Append(c.scores, <<d, Score(builtIndex[1], TokenSet(c.tokens), d)>>)
       IN callers' = [callers EXCEPT ![p] =
                        [c EXCEPT !.scores = scores,
                                  !.pc = IF Len(scores) = Len(c.candidate_docs)
                                         THEN "rank" ELSE "score"]]
    /\ UNCHANGED returned
    /\ UNCHANGED <<engVars, svcVars, lruVars, persistVars, frontVars>>

\* ranked = sorted(scores.items(), ...); return ranked
RankReturn(p) ==
    /\ callers[p].pc = "rank"
    /\ Return(p, callers[p], Rank(callers[p].scores))
    /\ UNCHANGED <<engVars, svcVars, lruVars, persistVars, frontVars>>

\* SERVICE.search(q), which calls core_search(q, self.index) on a miss
ViaService(q) ==
    /\ svc # None
    /\ TotalSearches < MaxSearches
    /\ LET r == service_search(svc[1], Some(q))
       IN /\ svc' = Some(r.svc)
          /\ svcLog' = Append(svcLog, [query |-> Some(q), results |-> r.results,
                                       cached |-> r.cached, engine |-> r.engine])
    /\ UNCHANGED <<engVars, lruVars, persistVars, rdVars, frontVars>>

ReadersNext ==
    \/ \E cache_capacity \in {0, 1} : Startup(cache_capacity)
    \/ \E p \in Callers, q \in ReaderQueries : Call(p, q)
    \/ \E p \in Callers : Fetch(p)
    \/ \E p \in Callers : Intersect(p)
    \/ \E p \in Callers : ScoreDoc(p)
    \/ \E p \in Callers : RankReturn(p)
    \/ \E q \in ReaderQueries : ViaService(q)

SpecReaders == ReadersInit /\ [][ReadersNext]_vars

\* ---------------------------------------------------- SpecApi: inputs, actions
\* the HTTP requests in flight on GET /api/search
Requests == {"r1", "r2"}

\* their q parameters: the scenario query, one of its terms, a stop-word, blanks
ApiQueries == {ScenarioQuery, <<"s", "e", "a", "r", "c", "h">>, StopText, BlankText}

\* no request on this connection
NoRequest ==
    [pc |-> "idle", q |-> <<>>, total_queries |-> 0, key |-> <<>>, results |-> <<>>,
     cached |-> FALSE, status |-> 0, n |-> 0]

\* the requests received so far
Arrived == Sum([p \in Requests |-> reqs[p].n], Requests)

\* the handlers that have entered SERVICE.search and not returned from it
InService(rs) == {p \in Requests : rs[p].pc \in {"count", "lookup", "engine", "store"}}

\* import of main.py: INDEX and SERVICE are built before any request is served
ApiInit ==
    /\ svc \in {Some(NewService(build_index(ScenarioDir), c)) : c \in 0..MaxCapacity}
    /\ svcLog = <<>>
    /\ reqs = [p \in Requests |-> NoRequest]
    /\ nStarted = 0
    /\ LRUIdle
    /\ EngIdle
    /\ PersistIdle
    /\ ReadersIdle
    /\ UploadIdle
    /\ TokIdle

\* mutant of OnLoop: handlers run on threads of a pool, one per request
OnLoop_threads(p) == TRUE

\* api_search is a coroutine without an await: once the event loop has started
\* the handler of a request it runs it to its return before any other handler
OnLoop(p) ==
    \A r \in Requests \ {p} : reqs[r].pc \in {"idle", "ready"}

\* a request GET /api/search?q=... is received and its handler scheduled
Arrive(p, q) ==
    /\ reqs[p].pc = "idle"
    /\ Arrived < MaxRequests
    /\ reqs' = [reqs EXCEPT ![p] = [NoRequest EXCEPT !.pc = "ready", !.q = q,
                                                     !.n = reqs[p].n + 1]]
    /\ UNCHANGED <<svc, nStarted>>
    /\ UNCHANGED <<lruVars, engVars, svcLog, persistVars, rdVars, upVars, tokVars>>

\* api_search: a blank q is answered 400; otherwise SERVICE.search(q) is entered
\* and `self.total_queries += 1` loads the counter
Enter(p) ==
    /\ reqs[p].pc = "ready"
    /\ OnLoop(p)
    /\ reqs' = [reqs EXCEPT ![p] =
                   IF Strip(reqs[p].q) = <<>>
                   THEN [@ EXCEPT !.pc = "idle", !.status = 400]
                   ELSE [@ EXCEPT !.pc = "count",
                                  !.total_queries = svc[1].total_queries]]
    /\ UNCHANGED <<svc, nStarted>>
    /\ UNCHANGED <<lruVars, engVars, svcLog, persistVars, rdVars, upVars, tokVars>>

\* SearchService.search: `self.total_queries += 1` stores the counter; the query
\* is stripped and its key computed; an empty query or key returns []
CountQuery(p) ==
    /\ reqs[p].pc = "count"
    /\ OnLoop(p)
    /\ svc' = Some([svc[1] EXCEPT !.total_queries = reqs[p].total_queries + 1])
    /\ nStarted' = nStarted + 1
    /\ LET q == Strip(reqs[p].q)
           key == _normalize_key(q)
       IN reqs' = [reqs EXCEPT ![p] =
                     IF q = <<>> \/ key = <<>>
                     THEN [@ EXCEPT !.pc = "respond", !.results = <<>>, !.cached = FALSE]
                     ELSE [@ EXCEPT !.pc = "lookup", !.key = key]]
    /\ UNCHANGED <<lruVars, engVars, svcLog, persistVars, rdVars, upVars, tokVars>>

\* SearchService.search: cached = self.cache.get(key); a hit returns it
Lookup(p) ==
    /\ reqs[p].pc = "lookup"
    /\ OnLoop(p)
    /\ IF svc[1].cache = None
       THEN /\ reqs' = [reqs EXCEPT ![p].pc = "engine"]
            /\ UNCHANGED svc
       ELSE LET r == get(svc[1].cache[1], reqs[p].key)
            IN /\ svc' = Some([svc[1] EXCEPT !.cache = Some(r.cache)])
               /\ reqs' = [reqs EXCEPT ![p] =
                              IF r.ret # None
                              THEN [@ EXCEPT !.pc = "respond", !.results = r.ret[1],
                                             !.cached = TRUE]
                              ELSE [@ EXCEPT !.pc = "engine"]]
    /\ UNCHANGED nStarted
    /\ UNCHANGED <<lruVars, engVars, svcLog, persistVars, rdVars, upVars, tokVars>>

\* SearchService.search: results = core_search(q, self.index)
Engine(p) ==
    /\ reqs[p].pc = "engine"
    /\ OnLoop(p)
    /\ reqs' = [reqs EXCEPT ![p].pc = "store",
                            ![p].results = search(Strip(reqs[p].q), svc[1].index)]
    /\ UNCHANGED <<svc, nStarted>>
    /\ UNCHANGED <<lruVars, engVars, svcLog, persistVars, rdVars, upVars, tokVars>>

\* SearchService.search: a non-empty result is put in the cache; return
Store(p) ==
    /\ reqs[p].pc = "store"
    /\ OnLoop(p)
    /\ svc' = IF svc[1].cache # None /\ reqs[p].results # <<>>
              THEN Some([svc[1] EXCEPT
                           !.cache = Some(put(svc[1].cache[1], reqs[p].key,
                                              reqs[p].results))])
              ELSE svc
    /\ reqs' = [reqs EXCEPT ![p].pc = "respond"]
    /\ UNCHANGED nStarted
    /\ UNCHANGED <<lruVars, engVars, svcLog, persistVars, rdVars, upVars, tokVars>>

\* api_search: the results are paginated and transformed, the response returned
Respond(p) ==
    /\ reqs[p].pc = "respond"
    /\ OnLoop(p)
    /\ reqs' = [reqs EXCEPT ![p].pc = "idle", ![p].status = 200]
    /\ UNCHANGED <<svc, nStarted>>
    /\ UNCHANGED <<lruVars, engVars, svcLog, persistVars, rdVars, upVars, tokVars>>

ApiNext ==
    \/ \E p \in Requests, q \in ApiQueries : Arrive(p, q)
    \/ \E p \in Requests : Enter(p)
    \/ \E p \in Requests : CountQuery(p)
    \/ \E p \in Requests : Lookup(p)
    \/ \E p \in Requests : Engine(p)
    \/ \E p \in Requests : Store(p)
    \/ \E p \in Requests : Respond(p)

SpecApi == ApiInit /\ [][ApiNext]_vars

\* ------------------------------------------------- SpecUpload: inputs, actions
\* find_term_positions(text, term): the 0-based starts of the non-overlapping
\* matches of term in text, letter case ignored, found left to right from i
RECURSIVE FindFrom(_, _, _)
FindFrom(text, term, i) ==
    IF i + Len(term) - 1 > Len(text) THEN <<>>
    ELSE IF Lower(SubSeq(text, i, i + Len(term) - 1)) = Lower(term)
    THEN <<i - 1>> \o FindFrom(text, term, i + Len(term))
    ELSE FindFrom(text, term, i + 1)

find_term_positions(text, term) ==
    IF term = <<>> THEN <<>> ELSE FindFrom(text, term, 1)

\* the loop of search_document over query_words: a word whose lower-cased form
\* was seen is skipped; a word found in the document gives a MatchItem with the
\* word as written
RECURSIVE MatchWords(_, _, _)
MatchWords(doc, words, seen_terms) ==
    IF words = <<>> THEN <<>>
    ELSE LET word == words[1]
             positions == find_term_positions(doc, word)
         IN IF Len(word) > 0 /\ Lower(word) \notin seen_terms
            THEN (IF positions # <<>>
                  THEN <<[term |-> word, positions |-> positions]>>
                  ELSE <<>>)
                 \o MatchWords(doc, Tail(words), seen_terms \cup {Lower(word)})
            ELSE MatchWords(doc, Tail(words), seen_terms)

\* matches of a miss: query_words = q.strip().split()
ComputeMatches(doc, q) == MatchWords(doc, Split(Strip(q)), {})

\* cache_key = q.lower().strip()
cache_key(q) == Strip(Lower(q))

\* sum(len(m.positions) for m in matches)
total_matches(matches) ==
    Sum([i \in 1..Len(matches) |-> Len(matches[i].positions)], 1..Len(matches))

\* the upload requests in flight
Uploaders == {"u1", "u2"}

\* the texts of uploaded files: two documents and a blank one
UploadDocA == <<"A", "b", " ", "a", "b">>
UploadDocB == <<"b", " ", "a", "B">>
UploadTexts == {UploadDocA, UploadDocB, BlankText}

\* an uploaded file: the extension of its name and what decoding or extracting
\* its bytes gives, None when that raises; latin-1 decodes every .txt
UploadFiles ==
    {[ext |-> "txt", extract |-> Some(t)] : t \in UploadTexts}
    \cup {[ext |-> "pdf", extract |-> None],
          [ext |-> "exe", extract |-> Some(UploadDocA)]}

\* the q parameters of /search: two spellings and a padded form of one word, a
\* word of no document, two words of which the second repeats the first
UploadQueries ==
    {<<"a", "b">>, <<"A", "b">>, <<" ", "a", "b", " ">>, <<"z", "z">>,
     <<"b", " ", "B">>}

NoFile == [ext |-> "", extract |-> None]
NoUpload == [pc |-> "idle", file |-> NoFile]

\* a response; status 0 before any
NoResponse ==
    [kind |-> "none", status |-> 0, query |-> <<>>, matches |-> <<>>,
     total_matches |-> 0, cache |-> "", file |-> NoFile]

UploadInit ==
    /\ UPLOADED_DOCUMENT = None
    /\ UPLOADED_DOCUMENT_CACHE = <<>>
    /\ uploads = [u \in Uploaders |-> NoUpload]
    /\ upLast = NoResponse
    /\ asked = {}
    /\ replaced = [doc |-> None, keys |-> {}]
    /\ LRUIdle
    /\ EngIdle
    /\ svc = None
    /\ svcLog = <<>>
    /\ PersistIdle
    /\ ReadersIdle
    /\ ApiIdle
    /\ TokIdle

\* upload_document up to `content = await file.read()`: an unsupported extension
\* is answered 400; otherwise the handler is suspended at the await
UploadBegin(u, f) ==
    /\ uploads[u].pc = "idle"
    /\ IF f.ext \notin {"txt", "pdf", "docx", "doc"}
       THEN /\ upLast' = [NoResponse EXCEPT !.kind = "upload", !.status = 400, !.file = f]
            /\ UNCHANGED uploads
       ELSE /\ uploads' = [uploads EXCEPT ![u] = [pc |-> "read", file |-> f]]
            /\ UNCHANGED upLast
    /\ UNCHANGED <<UPLOADED_DOCUMENT, UPLOADED_DOCUMENT_CACHE, asked, replaced>>
    /\ UNCHANGED <<lruVars, engVars, svcVars, persistVars, rdVars, apiVars, tokVars>>

\* mutant of UploadFinish: the cache is kept when the document is replaced
UploadFinish_keeps_cache(u) ==
    /\ uploads[u].pc = "read"
    /\ LET f == uploads[u].file
       IN IF f.extract = None \/ Strip(f.extract[1]) = <<>>
          THEN /\ upLast' = [NoResponse EXCEPT !.kind = "upload", !.status = 400,
                                               !.file = f]
               /\ UNCHANGED <<UPLOADED_DOCUMENT, UPLOADED_DOCUMENT_CACHE, asked, replaced>>
          ELSE /\ UPLOADED_DOCUMENT' = Some(f.extract[1])
               /\ UNCHANGED UPLOADED_DOCUMENT_CACHE
               /\ asked' = {}
               /\ replaced' = [doc |-> UPLOADED_DOCUMENT,
                                keys |-> DOMAIN UPLOADED_DOCUMENT_CACHE]
               /\ upLast' = [NoResponse EXCEPT !.kind = "upload", !.status = 200,
                                               !.file = f]
    /\ uploads' = [uploads EXCEPT ![u] = NoUpload]
    /\ UNCHANGED <<lruVars, engVars, svcVars, persistVars, rdVars, apiVars, tokVars>>

\* mutant of UploadFinish: the cache is reset before the text is validated
UploadFinish_clears_first(u) ==
    /\ uploads[u].pc = "read"
    /\ LET f == uploads[u].file
       IN IF f.extract = None \/ Strip(f.extract[1]) = <<>>
          THEN /\ upLast' = [NoResponse EXCEPT !.kind = "upload", !.status = 400,
                                               !.file = f]
               /\ UPLOADED_DOCUMENT_CACHE' = <<>>
               /\ UNCHANGED <<UPLOADED_DOCUMENT, asked, replaced>>
          ELSE /\ UPLOADED_DOCUMENT' = Some(f.extract[1])
               /\ UPLOADED_DOCUMENT_CACHE' = <<>>
               /\ asked' = {}
               /\ replaced' = [doc |-> UPLOADED_DOCUMENT,
                                keys |-> DOMAIN UPLOADED_DOCUMENT_CACHE]
               /\ upLast' = [NoResponse EXCEPT !.kind = "upload", !.status = 200,
                                               !.file = f]
    /\ uploads' = [uploads EXCEPT ![u] = NoUpload]
    /\ UNCHANGED <<lruVars, engVars, svcVars, persistVars, rdVars, apiVars, tokVars>>

\* mutant of UploadFinish: the handler is suspended between the assignment of
\* the document and the reset of the cache
UploadFinish_torn(u) ==
    /\ uploads[u].pc \in {"read", "reset"}
    /\ LET f == uploads[u].file
       IN IF uploads[u].pc = "reset"
          THEN /\ UPLOADED_DOCUMENT_CACHE' = <<>>
               /\ asked' = {}
               /\ replaced' = [doc |-> UPLOADED_DOCUMENT,
                                keys |-> DOMAIN UPLOADED_DOCUMENT_CACHE]
               /\ upLast' = [NoResponse EXCEPT !.kind = "upload", !.status = 200,
                                               !.file = f]
               /\ uploads' = [uploads EXCEPT ![u] = NoUpload]
               /\ UNCHANGED UPLOADED_DOCUMENT
          ELSE IF f.extract = None \/ Strip(f.extract[1]) = <<>>
          THEN /\ upLast' = [NoResponse EXCEPT !.kind = "upload", !.status = 400,
                                               !.file = f]
               /\ uploads' = [uploads EXCEPT ![u] = NoUpload]
               /\ UNCHANGED <<UPLOADED_DOCUMENT, UPLOADED_DOCUMENT_CACHE, asked, replaced>>
          ELSE /\ UPLOADED_DOCUMENT' = Some(f.extract[1])
               /\ uploads' = [uploads EXCEPT ![u].pc = "reset"]
               /\ UNCHANGED <<UPLOADED_DOCUMENT_CACHE, asked, upLast, replaced>>
    /\ UNCHANGED <<lruVars, engVars, svcVars, persistVars, rdVars, apiVars, tokVars>>

\* upload_document after the await: the bytes are decoded or extracted; a
\* failure or a text empty after strip is answered 400; otherwise
\* UPLOADED_DOCUMENT = text and UPLOADED_DOCUMENT_CACHE = {} and the response is
\* built, without another await
UploadFinish(u) ==
    /\ uploads[u].pc = "read"
    /\ LET f == uploads[u].file
       IN IF f.extract = None \/ Strip(f.extract[1]) = <<>>
          THEN /\ upLast' = [NoResponse EXCEPT !.kind = "upload", !.status = 400,
                                               !.file = f]
               /\ UNCHANGED <<UPLOADED_DOCUMENT, UPLOADED_DOCUMENT_CACHE, asked, replaced>>
          ELSE /\ UPLOADED_DOCUMENT' = Some(f.extract[1])
               /\ UPLOADED_DOCUMENT_CACHE' = <<>>
               /\ asked' = {}
               /\ replaced' = [doc |-> UPLOADED_DOCUMENT,
                                keys |-> DOMAIN UPLOADED_DOCUMENT_CACHE]
               /\ upLast' = [NoResponse EXCEPT !.kind = "upload", !.status = 200,
                                               !.file = f]
    /\ uploads' = [uploads EXCEPT ![u] = NoUpload]
    /\ UNCHANGED <<lruVars, engVars, svcVars, persistVars, rdVars, apiVars, tokVars>>

\* mutant of SearchDocument: an empty list of matches is not stored
SearchDocument_skips_empty(q) ==
    /\ IF UPLOADED_DOCUMENT = None
       THEN /\ upLast' = [NoResponse EXCEPT !.kind = "search", !.status = 400, !.query = q]
            /\ UNCHANGED <<UPLOADED_DOCUMENT_CACHE, asked, replaced>>
       ELSE LET key == cache_key(q)
            IN /\ asked' = asked \cup {key}
               /\ UNCHANGED replaced
               /\ IF key \in DOMAIN UPLOADED_DOCUMENT_CACHE
                  THEN /\ upLast' = [NoResponse EXCEPT
                                        !.kind = "search", !.status = 200, !.query = q,
                                        !.matches = UPLOADED_DOCUMENT_CACHE[key],
                                        !.total_matches =
                                            total_matches(UPLOADED_DOCUMENT_CACHE[key]),
                                        !.cache = "HIT"]
                       /\ UNCHANGED UPLOADED_DOCUMENT_CACHE
                  ELSE LET matches == ComputeMatches(UPLOADED_DOCUMENT[1], q)
                       IN /\ UPLOADED_DOCUMENT_CACHE' =
                                IF matches # <<>>
                                THEN (key :> matches) @@ UPLOADED_DOCUMENT_CACHE
                                ELSE UPLOADED_DOCUMENT_CACHE
                          /\ upLast' = [NoResponse EXCEPT
                                          !.kind = "search", !.status = 200, !.query = q,
                                          !.matches = matches,
                                          !.total_matches = total_matches(matches),
                                          !.cache = "MISS"]
    /\ UNCHANGED <<UPLOADED_DOCUMENT, uploads>>
    /\ UNCHANGED <<lruVars, engVars, svcVars, persistVars, rdVars, apiVars, tokVars>>

\* search_document(q), a coroutine without an await: 400 when no document is
\* loaded; a key in the cache is answered from it (HIT); otherwise the matches
\* are computed, stored under the key and answered (MISS)
SearchDocument(q) ==
    /\ IF UPLOADED_DOCUMENT = None
       THEN /\ upLast' = [NoResponse EXCEPT !.kind = "search", !.status = 400, !.query = q]
            /\ UNCHANGED <<UPLOADED_DOCUMENT_CACHE, asked, replaced>>
       ELSE LET key == cache_key(q)
            IN /\ asked' = asked \cup {key}
               /\ UNCHANGED replaced
               /\ IF key \in DOMAIN UPLOADED_DOCUMENT_CACHE
                  THEN /\ upLast' = [NoResponse EXCEPT
                                        !.kind = "search", !.status = 200, !.query = q,
                                        !.matches = UPLOADED_DOCUMENT_CACHE[key],
                                        !.total_matches =
                                            total_matches(UPLOADED_DOCUMENT_CACHE[key]),
                                        !.cache = "HIT"]
                       /\ UNCHANGED UPLOADED_DOCUMENT_CACHE
                  ELSE LET matches == ComputeMatches(UPLOADED_DOCUMENT[1], q)
                       IN /\ UPLOADED_DOCUMENT_CACHE' =
                                (key :> matches) @@ UPLOADED_DOCUMENT_CACHE
                          /\ upLast' = [NoResponse EXCEPT
                                          !.kind = "search", !.status = 200, !.query = q,
                                          !.matches = matches,
                                          !.total_matches = total_matches(matches),
                                          !.cache = "MISS"]
    /\ UNCHANGED <<UPLOADED_DOCUMENT, uploads>>
    /\ UNCHANGED <<lruVars, engVars, svcVars, persistVars, rdVars, apiVars, tokVars>>

UploadNext ==
    \/ \E u \in Uploaders, f \in UploadFiles : UploadBegin(u, f)
    \/ \E u \in Uploaders : UploadFinish(u)
    \/ \E q \in UploadQueries : SearchDocument(q)

SpecUpload == UploadInit /\ [][UploadNext]_vars

\* --------------------------------------------- SpecTokenizer: inputs, actions
\* the pieces texts are made of: a letter that alone is a stop-word, a capital, a
\* digit, a blank, punctuation, two stop-words (one capitalized), a line break
TokPieces == {<<"a">>, <<"B">>, <<"7">>, <<" ">>, <<",">>, <<"i", "t">>,
              <<"T", "h", "e">>, <<"\n">>}

\* s[1] \o s[2] \o ...
RECURSIVE Concat(_)
Concat(s) == IF s = <<>> THEN <<>> ELSE s[1] \o Concat(Tail(s))

\* the texts of at most MaxPieces pieces
TokTexts == {Concat(ps) : ps \in UNION {[1..k -> TokPieces] : k \in 0..MaxPieces}}

\* nothing computed from the text yet
NoOutput == [tokens |-> None, vocabulary |-> None, key |-> None, found |-> None]

TokInit ==
    /\ tokText \in TokTexts
    /\ tokOut = NoOutput
    /\ LRUIdle
    /\ EngIdle
    /\ svc = None
    /\ svcLog = <<>>
    /\ PersistIdle
    /\ ReadersIdle
    /\ ApiIdle
    /\ UploadIdle

\* the directory of the one PDF whose extracted text is text
OneFileDir(text) == (1 :> [ext |-> ".pdf", extract |-> Some(text)])

\* tokens = preprocess(text)
Preprocess ==
    /\ tokOut.tokens = None
    /\ tokOut' = [tokOut EXCEPT !.tokens = Some(preprocess(tokText))]
    /\ UNCHANGED tokText
    /\ UNCHANGED <<lruVars, engVars, svcVars, persistVars, rdVars, apiVars, upVars>>

\* build_index over a directory whose one file has the text: the terms indexed
IndexText ==
    /\ tokOut.vocabulary = None
    /\ tokOut' = [tokOut EXCEPT
                     !.vocabulary = Some(DOMAIN build_index(OneFileDir(tokText)).postings)]
    /\ UNCHANGED tokText
    /\ UNCHANGED <<lruVars, engVars, svcVars, persistVars, rdVars, apiVars, upVars>>

\* SearchService._normalize_key(text)
NormalizeKey ==
    /\ tokOut.key = None
    /\ tokOut' = [tokOut EXCEPT !.key = Some(_normalize_key(tokText))]
    /\ UNCHANGED tokText
    /\ UNCHANGED <<lruVars, engVars, svcVars, persistVars, rdVars, apiVars, upVars>>

\* search(text, index) with the text as the query, over the index of the one
\* file with that text: the document ids returned
SearchText ==
    /\ tokOut.found = None
    /\ LET r == search(tokText, build_index(OneFileDir(tokText)))
       IN tokOut' = [tokOut EXCEPT !.found = Some({r[i][1] : i \in 1..Len(r)})]
    /\ UNCHANGED tokText
    /\ UNCHANGED <<lruVars, engVars, svcVars, persistVars, rdVars, apiVars, upVars>>

TokNext ==
    \/ Preprocess
    \/ IndexText
    \/ NormalizeKey
    \/ SearchText

SpecTokenizer == TokInit /\ [][TokNext]_vars

\* ------------------------------------------------------- claims on LRUCache
IndexOf(seq, x) == CHOOSE i \in 1..Len(seq) : seq[i] = x

\* the held key whose last put or get-hit is the oldest, by the history `touched`
OldestHeld(c) ==
    CHOOSE k \in Held(c) : \A j \in Held(c) : IndexOf(touched, j) <= IndexOf(touched, k)

\* the n most recently touched keys of the history
MostRecent(n) == {touched[i] : i \in 1..Min(n, Len(touched))}

\* what a put step does to the set of entries (the step property of C1)
C1_PutStep ==
    (lruLast'.op = "put" /\ cache # None) =>
        LET c == cache[1]
            d == cache'[1]
            key == lruLast'.key
        IN /\ (key \notin Held(c) /\ Cardinality(Held(c)) = c.capacity)
                => /\ Held(c) \ Held(d) = {OldestHeld(c)}
                   /\ Held(d) = (Held(c) \ {OldestHeld(c)}) \cup {key}
           /\ (key \in Held(c) \/ Cardinality(Held(c)) < c.capacity)
                => Held(d) = Held(c) \cup {key}
           /\ get(d, key).ret = lruLast'.value

\* C1: a put of an absent key into a full cache removes exactly one entry, the
\* least recently used one (oldest last put or get-hit); a put of a held key, or
\* into a cache that is not full, removes no entry; right after put(key, value)
\* a get(key) returns value.
C1_PutEvictsExactlyLRU == [][C1_PutStep]_lruVars

\* C1 witness: a put of an absent key into a full cache has evicted an entry
C1_Witness ==
    /\ cache # None
    /\ lruLast.op = "put"
    /\ lruLast.evicted # {}
    /\ Cardinality(Held(cache[1])) = cache[1].capacity

\* C2: the keys held are exactly the min(capacity, n) most recently touched of the
\* n distinct keys ever put (a touch is a put or a get that hits); with capacity 2,
\* after put(a), put(b), put(c), get(a) misses and then get(b) and get(c) hit.
C2_HeldAreMostRecentlyTouched ==
    cache # None =>
        LET c == cache[1]
        IN /\ Held(c) = MostRecent(c.capacity)
           /\ Cardinality(Held(c)) = Min(c.capacity, Len(touched))
           /\ (c.capacity = 2 /\ nPuts = 3 /\ touched = << <<"c">>, <<"b">>, <<"a">> >>)
                => LET ga == get(c, <<"a">>)
                       gb == get(ga.cache, <<"b">>)
                       gc == get(gb.cache, <<"c">>)
                   IN /\ ga.ret = None
                      /\ gb.ret = Some(latest[<<"b">>])
                      /\ gc.ret = Some(latest[<<"c">>])
                      /\ gc.cache.hits = c.hits + 2
                      /\ gc.cache.misses = c.misses + 1

\* C2 witness: capacity 2, put(a), put(b), put(c), then get(a) has missed
C2_Witness ==
    /\ cache # None
    /\ cache[1].capacity = 2
    /\ nPuts = 3
    /\ touched = << <<"c">>, <<"b">>, <<"a">> >>
    /\ lruLast.op = "get"
    /\ lruLast.key = <<"a">>
    /\ lruLast.ret = None

\* what a get step returns and does to the recency order (the step property of C3)
C3_GetStep ==
    /\ (lruLast'.op = "get" /\ cache # None) =>
        LET c == cache[1]
            d == cache'[1]
            key == lruLast'.key
        IN IF key \in Held(c)
           THEN /\ lruLast'.ret = Some(latest[key])
                /\ Order(d)[1] = key
                /\ Held(d) = Held(c)
           ELSE /\ lruLast'.ret = None
                /\ Order(d) = Order(c)
                /\ d.map = c.map
                /\ d.nodes = c.nodes
    /\ (cache' # None /\ watch'.key # None
          /\ Cardinality(watch'.newKeys) <= cache'[1].capacity - 1)
        => watch'.key[1] \in Held(cache'[1])

\* C3: a get that hits returns the value of the latest put for the key and makes
\* the entry the most recently used, so it outlives the next capacity-1 puts of
\* distinct new keys; a get that misses changes neither the entries nor their order.
C3_GetHitMakesMostRecent == [][C3_GetStep]_lruVars

\* C3 witness: capacity >= 2, a get hit, then capacity-1 new keys were put and the
\* last of these puts evicted an entry (not the one that was hit)
C3_Witness ==
    /\ cache # None
    /\ cache[1].capacity >= 2
    /\ watch.key # None
    /\ Cardinality(watch.newKeys) = cache[1].capacity - 1
    /\ lruLast.op = "put"
    /\ lruLast.evicted # {}
    /\ watch.key[1] \in Held(cache[1])

\* what a step does to hits and misses (the step property of C4)
C4_CounterStep ==
    /\ (lruLast'.op = "get" /\ cache # None) =>
        LET c == cache[1]
            d == cache'[1]
        IN /\ ~lruLast'.raised
           /\ IF lruLast'.key \in Held(c)
              THEN d.hits = c.hits + 1 /\ d.misses = c.misses
              ELSE d.hits = c.hits /\ d.misses = c.misses + 1
    /\ (lruLast'.op \in {"put", "stats"} /\ cache # None) =>
        /\ cache'[1].hits = cache[1].hits
        /\ cache'[1].misses = cache[1].misses
    /\ cache' # None => cache'[1].hits + cache'[1].misses = nGets'
    /\ lruLast'.op = "stats" =>
        LET st == lruLast'.ret[1]
        IN /\ st.hits = cache'[1].hits
           /\ st.misses = cache'[1].misses
           /\ st.hit_ratio.den > 0
           /\ IF nGets' = 0
              THEN st.hit_ratio.num = 0
              ELSE st.hit_ratio.num * (st.hits + st.misses) = st.hits * st.hit_ratio.den

\* C4: every get adds one to exactly one of hits and misses (hits iff the key is
\* held at the call) and does not raise; put and stats change neither counter;
\* hits + misses is the number of get calls; stats reports hit_ratio =
\* hits / (hits + misses), or 0 when no get was made.
C4_HitMissAccounting == [][C4_CounterStep]_lruVars

\* C4 witness: stats was called after at least one hit and one miss
C4_Witness ==
    /\ cache # None
    /\ lruLast.op = "stats"
    /\ cache[1].hits >= 1
    /\ cache[1].misses >= 1

\* what a construction yields and what a step does to capacity (the step
\* property of C19)
C19_Step ==
    /\ lruLast'.op = "init" =>
          \A capacity \in Capacities :
             Construct(capacity) =>
                IF capacity <= 0
                THEN /\ lruLast'.raised
                     /\ cache' = None
                ELSE /\ ~lruLast'.raised
                     /\ cache' # None
                     /\ cache'[1].capacity = capacity
                     /\ Held(cache'[1]) = {}
                     /\ Order(cache'[1]) = <<>>
                     /\ cache'[1].hits = 0
                     /\ cache'[1].misses = 0
    /\ cache' # None => cache'[1].capacity > 0
    /\ cache # None => /\ cache' # None
                       /\ cache'[1].capacity = cache[1].capacity
    /\ lruLast'.op = "stats" => lruLast'.ret[1].capacity = cache'[1].capacity

\* C19: LRUCache(capacity) with capacity <= 0 raises and yields no cache; with
\* capacity > 0 it yields an empty cache with hits = misses = 0; no get, put or
\* stats call changes capacity.
C19_CapacityPositiveAndFixed == [][C19_Step]_lruVars

\* C19 witness: a cache of capacity 2 after puts with an eviction, a get and stats
C19_Witness ==
    /\ cache # None
    /\ cache[1].capacity = 2
    /\ nPuts >= 3
    /\ nGets >= 1
    /\ Cardinality(Held(cache[1])) = 2
    /\ lruLast.op = "stats"
    /\ lruLast.ret[1].capacity = 2

\* C25: the walk from the head sentinel by next pointers reaches the tail
\* sentinel after visiting exactly the nodes stored in the map, each once, every
\* visited node's key being the key the map stores it under; the walk from the
\* tail sentinel by prev pointers visits the same nodes in reverse order; the
\* number of entries is between 0 and capacity.
C25_ListAndMapAgree ==
    cache # None =>
       LET c == cache[1]
           n == Cardinality(DOMAIN c.nodes)
           fwd == ChainFrom(c.nodes, HEAD, n + 1)
           back == ChainBack(c.nodes, TAIL, n + 1)
           size == Cardinality(DOMAIN c.map)
       IN /\ Len(fwd) = size + 2
          /\ fwd[1] = HEAD
          /\ fwd[Len(fwd)] = TAIL
          /\ \A i, j \in 1..Len(fwd) : i # j => fwd[i] # fwd[j]
          /\ {fwd[i] : i \in 2..(Len(fwd) - 1)} = Range(c.map)
          /\ \A k \in DOMAIN c.map : c.nodes[c.map[k]].key = k
          /\ back = [i \in 1..Len(fwd) |-> fwd[Len(fwd) + 1 - i]]
          /\ 0 <= size
          /\ size <= c.capacity

\* C25 witness: a full cache of capacity 2 right after a get that hit the entry
\* at the tail of the list, an eviction having happened before
C25_Witness ==
    /\ cache # None
    /\ cache[1].capacity = 2
    /\ Cardinality(Held(cache[1])) = 2
    /\ nPuts >= 3
    /\ Cardinality(SeqToSet(touched)) >= 3
    /\ lruLast.op = "get"
    /\ lruLast.ret # None
    /\ Order(cache[1])[1] = lruLast.key

\* ------------------------------------------------- claims on SearchService
\* the token sequence of an Optional[str] query (None as the empty string)
TokensOf(q) == preprocess(IF q = None THEN <<>> ELSE q[1])

\* the cache key the service computes for an Optional[str] query
KeyOf(q) == _normalize_key(Strip(IF q = None THEN <<>> ELSE q[1]))

\* a query that is None, empty, blank, or without any term
Degenerate(q) ==
    \/ q = None
    \/ \A i \in 1..Len(q[1]) : q[1][i] \in Whitespace
    \/ TokensOf(q) = <<>>

\* the documents of the service's index whose text holds every term of q
Matching(q) ==
    {d \in DOMAIN svc[1].index.forward_index :
        \A i \in 1..Len(TokensOf(q)) :
            \E j \in 1..Len(preprocess(svc[1].index.forward_index[d])) :
                preprocess(svc[1].index.forward_index[d])[j] = TokensOf(q)[i]}

\* the value stored in the service's cache under a held key
Stored(c, key) == c.nodes[c.map[key]].value[1]

\* C5: on a fresh service with caching enabled, the same query with at least one
\* matching document issued twice returns cached=False then cached=True with the
\* same results, the engine runs only for the first call, and the cache then
\* reports hits = 1 and misses = 1.
C5_SecondIdenticalQueryIsCached ==
    (/\ svc # None
     /\ svc[1].cache # None
     /\ Len(svcLog) >= 2
     /\ svcLog[1].query = svcLog[2].query
     /\ ~Degenerate(svcLog[1].query)
     /\ Matching(svcLog[1].query) # {})
    => /\ ~svcLog[1].cached
       /\ svcLog[1].engine
       /\ svcLog[2].cached
       /\ ~svcLog[2].engine
       /\ svcLog[2].results = svcLog[1].results
       /\ svcLog[1].results # <<>>
       /\ Len(svcLog) = 2 => /\ svc[1].cache[1].hits = 1
                             /\ svc[1].cache[1].misses = 1

\* C5 witness: the scenario query was issued twice to a fresh caching service
C5_Witness ==
    /\ svc # None
    /\ svc[1].cache # None
    /\ Len(svcLog) = 2
    /\ svcLog[1].query = Some(ScenarioQuery)
    /\ svcLog[2].query = Some(ScenarioQuery)
    /\ svcLog[2].cached

\* what a service step stores in the cache (the step property of C6)
C6_Step ==
    /\ (svc' # None /\ svc'[1].cache # None) =>
        \A k \in Held(svc'[1].cache[1]) :
            /\ Stored(svc'[1].cache[1], k) # <<>>
            /\ \E i \in 1..Len(svcLog') :
                  /\ KeyOf(svcLog'[i].query) = k
                  /\ svcLog'[i].results # <<>>
    /\ (svc # None /\ Len(svcLog') = Len(svcLog) + 1) =>
        LET e == svcLog'[Len(svcLog')]
        IN /\ (svc[1].cache # None /\ ~Degenerate(e.query) /\ Matching(e.query) = {})
                => /\ e.engine
                   /\ ~e.cached
                   /\ e.results = <<>>
                   /\ svc'[1].cache[1].misses = svc[1].cache[1].misses + 1
                   /\ svc'[1].cache[1].hits = svc[1].cache[1].hits
                   /\ Held(svc'[1].cache[1]) = Held(svc[1].cache[1])
           /\ svc[1].cache = None
                => /\ ~e.cached
                   /\ e.engine <=> ~Degenerate(e.query)
                   /\ svc'[1].cache = None

\* C6: the cache is populated only on a miss with a non-empty engine result:
\* every stored value is a non-empty list, a query matching no document is never
\* stored, each repetition of it runs the engine, returns cached=False and adds
\* one to misses; without a cache every non-degenerate query runs the engine and
\* cached is always False.
C6_OnlyNonEmptyResultsAreCached == [][C6_Step]_vars

\* C6 witness: a query that matches no document was repeated on a caching service
C6_Witness ==
    /\ svc # None
    /\ svc[1].cache # None
    /\ Len(svcLog) >= 2
    /\ svcLog[1].query = svcLog[2].query
    /\ ~Degenerate(svcLog[1].query)
    /\ svcLog[2].results = <<>>
    /\ svcLog[2].engine
    /\ svc[1].index.N > 0

\* C7: a query that is None, empty, blank or without terms returns no results and
\* cached=False and still counts; total_queries is the number of search calls.
C7_DegenerateQueriesCount ==
    svc # None =>
        /\ svc[1].total_queries = Len(svcLog)
        /\ \A i \in 1..Len(svcLog) :
              Degenerate(svcLog[i].query)
                => /\ svcLog[i].results = <<>>
                   /\ ~svcLog[i].cached

\* C7 witness: None, a blank and a stop-word query were served after a real one
C7_Witness ==
    /\ svc # None
    /\ Len(svcLog) = 3
    /\ ~Degenerate(svcLog[1].query)
    /\ svcLog[2].query \in {None, Some(BlankText)}
    /\ svcLog[3].query = Some(StopText)
    /\ svc[1].total_queries = 3

\* which earlier answers a service step reuses (the step property of C8)
C8_Step ==
    (svc # None /\ svc[1].cache # None /\ Len(svcLog') = Len(svcLog) + 1) =>
        LET e == svcLog'[Len(svcLog')]
        IN /\ \A j \in 1..Len(svcLog) :
                 (/\ ~Degenerate(e.query)
                  /\ TokensOf(svcLog[j].query) = TokensOf(e.query)
                  /\ svcLog[j].results # <<>>
                  /\ KeyOf(svcLog[j].query) \in Held(svc[1].cache[1]))
                 => /\ e.cached
                    /\ e.results = svcLog[j].results
           /\ e.cached =>
                 \E j \in 1..Len(svcLog) :
                    /\ TokensOf(svcLog[j].query) = TokensOf(e.query)
                    /\ svcLog[j].results = e.results
           /\ \A k \in Held(svc'[1].cache[1]) :
                 \E j \in 1..Len(svcLog') : k = JoinSpace(TokensOf(svcLog'[j].query))

\* C8: queries with the same token sequence share one cache entry: while the entry
\* a non-empty answer created is held, any query with that token sequence is
\* answered cached=True with the same results; a cached answer always comes from
\* an earlier query with the same token sequence, so the same terms in another
\* order use another entry.
C8_SameTokensShareCacheEntry == [][C8_Step]_vars

\* C8 witness: another spelling of the first query was answered from the cache,
\* then the same terms in another order were not
C8_Witness ==
    /\ svc # None
    /\ svc[1].cache # None
    /\ Len(svcLog) = 3
    /\ svcLog[1].query # svcLog[2].query
    /\ TokensOf(svcLog[1].query) = TokensOf(svcLog[2].query)
    /\ svcLog[2].cached
    /\ TokensOf(svcLog[3].query) # TokensOf(svcLog[1].query)
    /\ SeqToSet(TokensOf(svcLog[3].query)) = SeqToSet(TokensOf(svcLog[1].query))
    /\ ~svcLog[3].cached
    /\ svcLog[3].results # <<>>

\* C26: with caching enabled, the results of every call of SearchService.search
\* equal the results a service with caching disabled (cache_capacity = 0) on the
\* same index returns for the same call; a hit returns the list the query engine
\* returns for that query, and the held index is the one given at construction.
C26_CacheTransparency ==
    (svc # None /\ svc[1].cache # None) =>
        \A i \in 1..Len(svcLog) :
            /\ svcLog[i].results
                 = service_search(NewService(svc[1].index, 0), svcLog[i].query).results
            /\ svcLog[i].cached =>
                  svcLog[i].results
                    = search(Strip(svcLog[i].query[1]), svc[1].index)

\* C26 witness: a hit serves a query spelt differently from the one that filled
\* the entry, after a query of other terms was answered by the engine
C26_Witness ==
    /\ svc # None
    /\ svc[1].cache # None
    /\ Len(svcLog) = 3
    /\ svcLog[1].engine
    /\ svcLog[1].results # <<>>
    /\ svcLog[2].engine
    /\ svcLog[2].results # <<>>
    /\ svcLog[2].results # svcLog[1].results
    /\ svcLog[3].cached
    /\ svcLog[3].query # svcLog[1].query
    /\ svcLog[3].results = svcLog[1].results

\* what a service step does to the cache (the step property of C27)
C27_Step ==
    (svc # None /\ svc' # None /\ Len(svcLog') = Len(svcLog) + 1) =>
        LET e == svcLog'[Len(svcLog')]
            served == {i \in 1..Len(svcLog') : ~Degenerate(svcLog'[i].query)}
        IN /\ Degenerate(e.query) => svc'[1].cache = svc[1].cache
           /\ svc'[1].cache # None =>
                 /\ svc'[1].cache[1].hits + svc'[1].cache[1].misses = Cardinality(served)
                 /\ svc'[1].cache[1].hits + svc'[1].cache[1].misses
                      <= svc'[1].total_queries

\* C27: a query that is None, empty, blank or without terms leaves the cache's
\* nodes, map, recency list, hits and misses as they were; with caching enabled
\* hits + misses is the number of search calls whose query has at least one term
\* and never exceeds total_queries.
C27_DegenerateQueryLeavesCache == [][C27_Step]_vars

\* C27 witness: a miss, a hit, then a query of only a stop-word, the cache still
\* holding the entry and reporting one hit and one miss
C27_Witness ==
    /\ svc # None
    /\ svc[1].cache # None
    /\ Len(svcLog) = 3
    /\ svcLog[1].engine
    /\ svcLog[2].cached
    /\ svcLog[3].query = Some(StopText)
    /\ Cardinality(Held(svc[1].cache[1])) = 1
    /\ svc[1].cache[1].hits = 1
    /\ svc[1].cache[1].misses = 1
    /\ svc[1].total_queries = 3

\* what a step of the /api/search handlers does to the one service (the step
\* property of C21)
C21_Step ==
    LET s1 == svc'[1]
    IN /\ Cardinality(InService(reqs')) <= 1
       /\ s1.total_queries = nStarted'
       /\ s1.cache # None =>
             /\ Cardinality(Held(s1.cache[1])) <= s1.cache[1].capacity
             /\ SeqToSet(Order(s1.cache[1])) = Held(s1.cache[1])
             /\ Len(Order(s1.cache[1])) = Cardinality(Held(s1.cache[1]))
             /\ Cardinality(Held(svc[1].cache[1]) \ Held(s1.cache[1])) <= 1

\* C21: calls of SearchService.search on the one instance never overlap: at most
\* one handler is inside the call at a time, so total_queries is the number of
\* calls started, the cache holds at most capacity entries, the map and the
\* recency list hold the same keys, and a put evicts at most one entry.
C21_ServiceCallsSerialized == [][C21_Step]_vars

\* C21 witness: a second request is waiting while the handler of the first is
\* about to store its result, after an earlier call filled and hit the cache
C21_Witness ==
    /\ svc[1].cache # None
    /\ \E p, r \in Requests :
          /\ p # r
          /\ reqs[p].pc = "store"
          /\ reqs[p].results # <<>>
          /\ reqs[r].pc = "ready"
    /\ svc[1].total_queries >= 2
    /\ Cardinality(Held(svc[1].cache[1])) >= 1

\* what the construction of a service does with its cache_capacity (the step
\* stated by C20)
C20_Step ==
    /\ \A d \in ServiceDirs, cache_capacity \in Capacities :
          /\ cache_capacity < 0 => ~ServiceConstruct(d, cache_capacity)
          /\ (cache_capacity = 0 /\ ServiceConstruct(d, cache_capacity))
                => svc'[1].cache = None
    /\ (svc' # None /\ svc'[1].cache # None) => svc'[1].cache[1].capacity > 0

\* C20: SearchService(index, cache_capacity) with a negative cache_capacity is
\* rejected: no step is such a construction that yields a service; with
\* cache_capacity = 0 the service has no cache instance, and a cache instance of
\* a service never has capacity 0.
C20_NegativeCapacityRejected == [][C20_Step]_vars

\* ------------------------------------------------------ claims on the indexer
\* a file build_index ingests: supported extension, extraction without error,
\* text not empty after trimming
Valid(file) ==
    /\ file.ext \in SupportedExts
    /\ file.extract # None
    /\ Strip(file.extract[1]) # <<>>

\* the names of the ingested files of the directory, in name order
ValidNames == SelectSeq(SortedInts(DOMAIN docsDir), LAMBDA n : Valid(docsDir[n]))

\* C14: the DocumentIDs of a built index are exactly 0..N-1, given in file-name
\* order to the files ingested; a file with an unsupported extension, a failed
\* extraction or a text empty after trimming gets no DocumentID and leaves no gap;
\* N is the number of entries of doc_id_map and of forward_index.
C14_DenseDocumentIds ==
    builtIndex # None =>
        LET idx == builtIndex[1]
        IN /\ idx.N = Len(ValidNames)
           /\ DOMAIN idx.doc_id_map = 0..(idx.N - 1)
           /\ DOMAIN idx.forward_index = 0..(idx.N - 1)
           /\ Cardinality(DOMAIN idx.doc_id_map) = idx.N
           /\ Cardinality(DOMAIN idx.forward_index) = idx.N
           /\ \A d \in 0..(idx.N - 1) :
                 /\ idx.doc_id_map[d] = ValidNames[d + 1]
                 /\ idx.forward_index[d] = Strip(docsDir[ValidNames[d + 1]].extract[1])

\* C14 witness: the first file has a supported extension and a blank text, the
\* second file is ingested as document 0
C14_Witness ==
    /\ builtIndex # None
    /\ DOMAIN docsDir = 1..2
    /\ docsDir[1].ext \in SupportedExts
    /\ docsDir[1].extract = Some(BlankText)
    /\ builtIndex[1].N = 1
    /\ builtIndex[1].doc_id_map[0] = 2

\* the token sequence of every document of an index
DocTokens(idx) == [d \in DOMAIN idx.forward_index |-> preprocess(idx.forward_index[d])]

\* the number of occurrences of term t in a token sequence
Occurrences(tokens, t) == Len(SelectSeq(tokens, LAMBDA x : x = t))

\* C15: every postings list is in strictly ascending DocumentID order (so at most
\* one entry per term and document), and the tf of an entry is the number of
\* occurrences of the term in the document's token sequence, at least 1.
C15_PostingsSortedWithTrueTf ==
    builtIndex # None =>
        LET idx == builtIndex[1]
            tokens == DocTokens(idx)
        IN \A t \in DOMAIN idx.postings :
              LET plist == idx.postings[t]
              IN /\ \A i, j \in 1..Len(plist) : i < j => plist[i].doc_id < plist[j].doc_id
                 /\ \A i \in 1..Len(plist) :
                       /\ plist[i].tf >= 1
                       /\ plist[i].doc_id \in DOMAIN idx.forward_index
                       /\ plist[i].tf = Occurrences(tokens[plist[i].doc_id], t)

\* C15 witness: a postings list of two entries, the first with tf = 2
C15_Witness ==
    /\ builtIndex # None
    /\ \E t \in DOMAIN builtIndex[1].postings :
          /\ Len(builtIndex[1].postings[t]) = 2
          /\ builtIndex[1].postings[t][1].tf = 2

\* C16: postings, df and idf have the same terms; df[term] is the length of
\* postings[term] and lies in 1..N; every DocumentID of a posting is in 0..N-1 and
\* the text of that document contains the term.
C16_DfMatchesPostings ==
    builtIndex # None =>
        LET idx == builtIndex[1]
            tokens == DocTokens(idx)
        IN /\ DOMAIN idx.df = DOMAIN idx.postings
           /\ DOMAIN idx.idf = DOMAIN idx.postings
           /\ \A t \in DOMAIN idx.postings :
                 /\ idx.df[t] = Len(idx.postings[t])
                 /\ idx.df[t] >= 1
                 /\ idx.df[t] <= idx.N
                 /\ \A i \in 1..Len(idx.postings[t]) :
                       /\ idx.postings[t][i].doc_id \in 0..(idx.N - 1)
                       /\ idx.postings[t][i].doc_id \in DOMAIN idx.doc_id_map
                       /\ Occurrences(tokens[idx.postings[t][i].doc_id], t) >= 1

\* C16 witness: two documents, a term of both with tf = 2 in one, a term of one
C16_Witness ==
    /\ builtIndex # None
    /\ builtIndex[1].N = 2
    /\ \E t, u \in DOMAIN builtIndex[1].postings :
          /\ builtIndex[1].df[t] = 2
          /\ \E i \in 1..2 : builtIndex[1].postings[t][i].tf = 2
          /\ builtIndex[1].df[u] = 1

\* the documents of the built index with at least one indexed term
WithTerms ==
    LET tokens == DocTokens(builtIndex[1])
    IN {d \in DOMAIN tokens : tokens[d] # <<>>}

\* C17: doc_norm is defined and >= 0 for every DocumentID in 0..N-1; it is 0 only
\* for a document with no indexed term, and strictly positive for every document
\* with at least one.
C17_NormDefinedForEveryDocument ==
    builtIndex # None =>
        \A d \in 0..(builtIndex[1].N - 1) :
            /\ d \in DOMAIN builtIndex[1].doc_norm
            /\ builtIndex[1].doc_norm[d] >= 0
            /\ builtIndex[1].doc_norm[d] = 0 => d \notin WithTerms
            /\ d \in WithTerms => builtIndex[1].doc_norm[d] > 0

\* the directory without the file named n
RemoveFile(dir, n) == [k \in (DOMAIN dir) \ {n} |-> dir[k]]

\* the files of the directory whose extraction fails
FailingNames ==
    {n \in DOMAIN docsDir : docsDir[n].ext \in SupportedExts /\ docsDir[n].extract = None}

\* C18: a file whose extraction fails is skipped and the build completes: the
\* index (DocumentIDs, postings, df, N and the rest) is the one build_index
\* returns for the directory without that file.
C18_FailedExtractionIsAbsentFile ==
    builtIndex # None =>
        \A n \in FailingNames : builtIndex[1] = build_index(RemoveFile(docsDir, n))

\* C18 witness: the extraction of the first file (a PDF) failed and the second
\* file is document 0, with a posting
C18_Witness ==
    /\ builtIndex # None
    /\ DOMAIN docsDir = 1..2
    /\ docsDir[1] = [ext |-> ".pdf", extract |-> None]
    /\ builtIndex[1].N = 1
    /\ builtIndex[1].doc_id_map[0] = 2
    /\ builtIndex[1].postings # <<>>

\* -------------------------------------------------- claims on the query engine
\* the distinct terms of the last query
LastTerms == TokenSet(preprocess(lastQuery[1]))

\* every term of the last query has at least one posting in the built index
AllTermsPosted ==
    \A t \in LastTerms :
        /\ t \in DOMAIN builtIndex[1].postings
        /\ builtIndex[1].postings[t] # <<>>

\* the documents listed in the postings of every term of the last query
InEveryPostingsList ==
    {d \in DOMAIN builtIndex[1].doc_id_map :
        \A t \in LastTerms :
            \E i \in 1..Len(builtIndex[1].postings[t]) :
                builtIndex[1].postings[t][i].doc_id = d}

\* C9: for a query with at least one term, all of whose terms have a posting, the
\* DocumentIDs of the result are exactly those present in the postings list of
\* every distinct query term, each once; in the two-document scenario the query
\* "search engines" returns only document 0, with a positive score.
C9_AndSemantics ==
    lastQuery # None =>
        /\ (LastTerms # {} /\ AllTermsPosted)
             => /\ {lastResult[i][1] : i \in 1..Len(lastResult)} = InEveryPostingsList
                /\ \A i, j \in 1..Len(lastResult) :
                      i # j => lastResult[i][1] # lastResult[j][1]
        /\ (docsDir = ScenarioDir /\ lastQuery = Some(ScenarioQuery))
             => /\ Len(lastResult) = 1
                /\ lastResult[1][1] = 0
                /\ lastResult[1][2] > 0

\* C9 witness: a two-term query that matches one document of two, the other
\* document holding only one of the terms
C9_Witness ==
    /\ lastQuery # None
    /\ builtIndex[1].N = 2
    /\ Cardinality(LastTerms) = 2
    /\ AllTermsPosted
    /\ Len(lastResult) = 1
    /\ \E t \in LastTerms : Len(builtIndex[1].postings[t]) = 2

\* C10: the result is ordered by descending score, and results with equal scores
\* are in ascending DocumentID order.
C10_RankedByScoreThenDocId ==
    lastQuery # None =>
        \A i, j \in 1..Len(lastResult) :
            i < j => \/ lastResult[i][2] > lastResult[j][2]
                     \/ /\ lastResult[i][2] = lastResult[j][2]
                        /\ lastResult[i][1] < lastResult[j][1]

\* C10 witness: two results with equal scores
C10_Witness ==
    /\ lastQuery # None
    /\ Len(lastResult) = 2
    /\ lastResult[1][2] = lastResult[2][2]

\* the terms of the last query that occur in no document of the built index
AbsentTerms ==
    LET tokens == DocTokens(builtIndex[1])
    IN {t \in LastTerms : \A d \in DOMAIN tokens : t \notin TokenSet(tokens[d])}

\* C11: search returns the empty list whenever the query has no term, or a query
\* term has no postings (it occurs in no document of the index, also when the index
\* is not empty), or the index was built from no valid document; such an index has
\* N = 0 and every map empty.
C11_EmptyResultCases ==
    /\ builtIndex # None =>
          (builtIndex[1].N = 0
             => /\ builtIndex[1].doc_id_map = <<>>
                /\ builtIndex[1].forward_index = <<>>
                /\ builtIndex[1].postings = <<>>
                /\ builtIndex[1].df = <<>>
                /\ builtIndex[1].idf = <<>>
                /\ builtIndex[1].doc_norm = <<>>)
    /\ lastQuery # None =>
          ((\/ LastTerms = {}
            \/ ~AllTermsPosted
            \/ AbsentTerms # {}
            \/ builtIndex[1].N = 0)
             => lastResult = <<>>)

\* C11 witness: a two-term query, one term in a document and the other in none,
\* was answered with the empty list by an index that is not empty
C11_Witness ==
    /\ lastQuery # None
    /\ builtIndex[1].N >= 1
    /\ Cardinality(LastTerms) = 2
    /\ Cardinality(AbsentTerms) = 1
    /\ lastResult = <<>>

\* what a step of a caller of search, or a call through the service, does to the
\* index and answers (the step property of C12)
C12_Step ==
    /\ builtIndex # None => builtIndex' = builtIndex
    /\ svc # None => /\ svc'[1].index = svc[1].index
                     /\ svc'[1].index = builtIndex'[1]
    /\ \A a \in returned' : a[2] = search(a[1], builtIndex'[1])
    /\ \A a, b \in returned' : a[1] = b[1] => a[2] = b[2]
    /\ \A i \in 1..Len(svcLog') :
          /\ svcLog'[i].results = search(svcLog'[i].query[1], builtIndex'[1])
          /\ \A a \in returned' : a[1] = svcLog'[i].query[1] => a[2] = svcLog'[i].results

\* C12: no step of a call of search, direct or through SearchService.search, hit
\* or miss, changes the index (postings, df, idf, doc_norm, N, doc_id_map,
\* forward_index); every answer to a query is the same list, whichever calls run
\* in between or at the same time.
C12_SearchIsPureRead == [][C12_Step]_vars

\* C12 witness: a query was answered directly with a non-empty list and from the
\* service's cache while another caller is in the middle of the same query
C12_Witness ==
    /\ \E p, r \in Callers :
          /\ callers[p].pc = "done"
          /\ callers[p].result # <<>>
          /\ callers[r].pc = "score"
          /\ callers[r].query = callers[p].query
          /\ \E i \in 1..Len(svcLog) :
                /\ svcLog[i].cached
                /\ svcLog[i].query = Some(callers[p].query)

\* the keys of an index
IndexKeys == {"doc_id_map", "forward_index", "postings", "df", "idf", "N", "doc_norm"}

\* C13: search on load_index(save_index(index)) returns the same (DocumentID,
\* score) list as search on index, for every built index and query; each matching
\* document's score is divided by the same doc_norm value on both; the loaded
\* index has the seven keys of an index, with N the same integer.
C13_RoundTripSameResults ==
    /\ loaded # None =>
          /\ DOMAIN loaded[1] = IndexKeys
          /\ loaded[1].N \in Nat
          /\ loaded[1].N = builtIndex[1].N
    /\ loadedResult # None =>
          /\ loadedResult[1] = lastResult
          /\ \A i \in 1..Len(lastResult) :
                NormOf(loaded[1], lastResult[i][1]) = NormOf(builtIndex[1], lastResult[i][1])

\* a better-scored document with the larger DocumentID comes first
C10_ScoreBeatsDocId ==
    /\ lastQuery # None
    /\ Len(lastResult) = 2
    /\ lastResult[1][2] > lastResult[2][2]
    /\ lastResult[1][1] > lastResult[2][1]


\* ------------------------------------------------------ claims on the tokenizer
\* the maximal runs of characters from [a-z0-9] in a lower-cased text, as
\* <<first, last>> positions
AlnumRuns(low) ==
    {r \in (1..Len(low)) \X (1..Len(low)) :
        /\ r[1] <= r[2]
        /\ \A k \in r[1]..r[2] : low[k] \in TokenChars
        /\ r[1] = 1 \/ low[r[1] - 1] \notin TokenChars
        /\ r[2] = Len(low) \/ low[r[2] + 1] \notin TokenChars}

\* the runs of the text that are not stop-words, in input order
ExpectedTerms(text) ==
    LET low == Lower(text)
        runs == AlnumRuns(low)
        starts == SortedInts({r[1] : r \in runs})
        words == [i \in 1..Len(starts) |->
                    LET r == CHOOSE x \in runs : x[1] = starts[i]
                    IN SubSeq(low, r[1], r[2])]
    IN SelectSeq(words, LAMBDA w : w \notin STOPWORDS)

\* C22: every term preprocess returns is a non-empty run of characters from
\* [a-z0-9], is not a stop-word, and the terms are the runs of the lower-cased
\* input in input order; the result is empty for empty input and for input made
\* only of stop-words and punctuation; the terms build_index files a text under,
\* the key the service caches a text under and the terms search looks a text up
\* by are the terms preprocess returns for it.
C22_TokenizerContract ==
    /\ tokOut.tokens # None =>
          LET toks == tokOut.tokens[1]
          IN /\ \A i \in 1..Len(toks) :
                   /\ toks[i] # <<>>
                   /\ \A k \in 1..Len(toks[i]) : toks[i][k] \in TokenChars
                   /\ toks[i] \notin STOPWORDS
             /\ toks = ExpectedTerms(tokText)
             /\ tokText = <<>> => toks = <<>>
             /\ (\A r \in AlnumRuns(Lower(tokText)) :
                    SubSeq(Lower(tokText), r[1], r[2]) \in STOPWORDS) => toks = <<>>
    /\ tokOut.vocabulary # None =>
          tokOut.vocabulary[1] = SeqToSet(ExpectedTerms(tokText))
    /\ tokOut.key # None => tokOut.key[1] = JoinSpace(ExpectedTerms(tokText))
    /\ tokOut.found # None =>
          tokOut.found[1] = IF ExpectedTerms(tokText) = <<>> THEN {} ELSE {0}

\* C22 witness: a text of a capitalized stop-word, punctuation and a capital
\* gave one term, was indexed under it, keyed and found by it
C22_Witness ==
    /\ tokText = <<"T", "h", "e", ",", "B">>
    /\ tokOut.tokens = Some(<<(<<"b">>)>>)
    /\ tokOut.vocabulary = Some({<<"b">>})
    /\ tokOut.key = Some(<<"b">>)
    /\ tokOut.found = Some({0})

\* ------------------------------------------- claims on /upload and /search
\* the lists of matches a miss computes from doc for the queries of cache key k
MatchesFor(doc, k) ==
    {ComputeMatches(doc, q0) : q0 \in {q \in UploadQueries : cache_key(q) = k}}

\* a file whose upload fails after it was read: its decoding or extraction
\* raises, or its text holds only blanks
FileFails(f) ==
    \/ f.extract = None
    \/ \A i \in 1..Len(f.extract[1]) : f.extract[1][i] \in Whitespace

\* how a /search on a loaded document reports the cache (the step property of C23)
C23_Step ==
    \A q \in UploadQueries :
        (upLast'.query = q /\ UPLOADED_DOCUMENT # None /\ SearchDocument(q)) =>
            /\ upLast'.status = 200
            /\ upLast'.cache = IF cache_key(q) \in asked THEN "HIT" ELSE "MISS"

\* C23: after a successful /upload, the first /search for a lower-cased, trimmed
\* query reports MISS and every later /search for it reports HIT, until the next
\* successful /upload; the same for a query without matches.
C23_MissThenHitUntilUpload == [][C23_Step]_vars

\* C23 witness: a query without matches in the second document uploaded is
\* answered from the cache
C23_Witness ==
    /\ UPLOADED_DOCUMENT = Some(UploadDocB)
    /\ replaced.doc = Some(UploadDocA)
    /\ upLast.kind = "search"
    /\ upLast.query = <<"z", "z">>
    /\ upLast.cache = "HIT"
    /\ upLast.matches = <<>>
    /\ upLast.total_matches = 0

\* what a successful /upload and a later /search do (the step property of C24)
C24_Step ==
    /\ \A u \in Uploaders :
          (uploads[u].pc = "read" /\ upLast'.status = 200 /\ UploadFinish(u)) =>
              /\ UPLOADED_DOCUMENT' = uploads[u].file.extract
              /\ UPLOADED_DOCUMENT_CACHE' = <<>>
    /\ \A q \in UploadQueries :
          (upLast'.query = q /\ UPLOADED_DOCUMENT # None /\ SearchDocument(q)) =>
              /\ upLast'.matches \in MatchesFor(UPLOADED_DOCUMENT[1], cache_key(q))
              /\ upLast'.total_matches = total_matches(upLast'.matches)

\* C24: a successful /upload replaces the document and empties the cache; every
\* /search answered after it carries matches computed from the document loaded
\* then, never from an earlier one.
C24_UploadReplacesDocumentAndCache == [][C24_Step]_vars

\* C24 witness: a query cached for the first document is answered, after the
\* second upload, by a miss with the positions in the second document
C24_Witness ==
    /\ UPLOADED_DOCUMENT = Some(UploadDocB)
    /\ replaced.doc = Some(UploadDocA)
    /\ <<"a", "b">> \in replaced.keys
    /\ upLast.kind = "search"
    /\ upLast.query = <<"a", "b">>
    /\ upLast.cache = "MISS"
    /\ upLast.matches = <<[term |-> <<"a", "b">>, positions |-> <<2>>]>>

\* what a hit returns (the step stated by C28)
C28_Step ==
    \A q \in UploadQueries :
        (upLast'.query = q /\ upLast'.cache = "HIT" /\ UPLOADED_DOCUMENT # None
         /\ SearchDocument(q)) =>
            /\ upLast'.matches = ComputeMatches(UPLOADED_DOCUMENT[1], q)
            /\ upLast'.total_matches
                 = total_matches(ComputeMatches(UPLOADED_DOCUMENT[1], q))

\* C28: a HIT of /search carries the terms, position lists and total_matches
\* that a miss computing the request's own query string on the current document
\* would carry, whichever query of the same cache key filled the entry.
C28_HitEqualsFreshComputation == [][C28_Step]_vars

\* what a failing request leaves alone (the step property of C29)
C29_Step ==
    /\ \A u \in Uploaders, f \in UploadFiles :
          (f.ext \notin {"txt", "pdf", "docx", "doc"} /\ upLast'.file = f
           /\ UploadBegin(u, f)) =>
              /\ upLast'.status = 400
              /\ UNCHANGED <<UPLOADED_DOCUMENT, UPLOADED_DOCUMENT_CACHE>>
    /\ \A u \in Uploaders :
          (uploads[u].pc = "read" /\ FileFails(uploads[u].file) /\ UploadFinish(u)) =>
              /\ upLast'.status = 400
              /\ UNCHANGED <<UPLOADED_DOCUMENT, UPLOADED_DOCUMENT_CACHE>>
    /\ \A q \in UploadQueries :
          (upLast'.query = q /\ UPLOADED_DOCUMENT = None /\ SearchDocument(q)) =>
              /\ upLast'.status = 400
              /\ UPLOADED_DOCUMENT_CACHE = <<>>
              /\ UPLOADED_DOCUMENT_CACHE' = <<>>

\* C29: an /upload that fails (unsupported extension, bytes that cannot be
\* decoded or extracted, text empty after trimming) is answered with an error and
\* changes neither the document nor its cache; a /search before any document was
\* loaded is answered with an error and creates no cache entry.
C29_FailedRequestsChangeNothing == [][C29_Step]_vars

\* C29 witness: the upload of an unextractable PDF was refused while the first
\* document and its cached matches stayed
C29_Witness ==
    /\ upLast.kind = "upload"
    /\ upLast.status = 400
    /\ upLast.file = [ext |-> "pdf", extract |-> None]
    /\ UPLOADED_DOCUMENT = Some(UploadDocA)
    /\ DOMAIN UPLOADED_DOCUMENT_CACHE = {<<"a", "b">>, <<"z", "z">>}

\* C30: whatever the interleaving of the /upload and /search handlers at their
\* awaits, the cache belongs to the document: without a document it is empty, and
\* every entry holds matches computed from the current document, for a key asked
\* since that document was loaded.
C30_CacheBelongsToDocument ==
    /\ UPLOADED_DOCUMENT = None => UPLOADED_DOCUMENT_CACHE = <<>>
    /\ UPLOADED_DOCUMENT # None =>
          \A k \in DOMAIN UPLOADED_DOCUMENT_CACHE :
              /\ UPLOADED_DOCUMENT_CACHE[k] \in MatchesFor(UPLOADED_DOCUMENT[1], k)
              /\ k \in asked

\* C30 witness: two uploads are suspended at their awaits while a search of the
\* second document, loaded over a first one with cached matches, hits the cache
C30_Witness ==
    /\ \A u \in Uploaders : uploads[u].pc = "read"
    /\ UPLOADED_DOCUMENT = Some(UploadDocB)
    /\ replaced.doc = Some(UploadDocA)
    /\ replaced.keys # {}
    /\ upLast.kind = "search"
    /\ upLast.cache = "HIT"
    /\ upLast.matches # <<>>

=============================================================================
